---- MODULE Spec2Model ----
(***************************************************************************)
(* InternalSchemaAllowedPropertiesMatchExpression                          *)
(* (expression_internal_schema_allowed_properties.{h,cpp}): a client holds *)
(* two nodes, initialises each once, and calls matches,                    *)
(* matchesSingleElement, shallowClone, serialize and equivalent on them.   *)
(*                                                                         *)
(* JSONSchemaParser (json_schema_parser.cpp): a second client compiles a   *)
(* schema object to a match tree, matches documents against the tree and   *)
(* compiles the tree's serialized form again.                              *)
(*                                                                         *)
(* Strings that the code inspects character by character (field names,     *)
(* regex source text) are sequences of one-character strings.              *)
(***************************************************************************)
EXTENDS Integers, Sequences, FiniteSets, TLC

VARIABLES node, pc, last, proc, out, input, result

vars == <<node, pc, last, proc, out, input, result>>

\* the variables of the schema compiler's client
compilerVars == <<input, result>>

(***************************************************************************)
(* Bounds of the model.                                                    *)
(***************************************************************************)
\* longest document handed to matches()
MaxFields == 2
\* longest patternProperties array handed to init()
MaxPatterns == 2

\* an empty std::unique_ptr; a non-empty one is <<the object it owns>>
Null == <<>>

\* the two unique_ptr<InternalSchemaAllowedPropertiesMatchExpression> the client holds
Slots == {"a", "b"}

Range(s) == {s[i] : i \in 1..Len(s)}

SeqsUpTo(S, n) == UNION {[1..k -> S] : k \in 0..n}

(***************************************************************************)
(* Values the client passes in.                                            *)
(***************************************************************************)
\* field names: "a", "ba", "c"
FieldNames == {<<"a">>, <<"b", "a">>, <<"c">>}

\* regex source texts: /a/ and /^a/
RegexSources == {<<"a">>, <<"^", "a">>}

\* BSON type tags of the values used
LeafTypes == {"String", "Number"}

\* the fields a document is made of
Fields == [fieldName : FieldNames, type : LeafTypes, obj : {<<>>}]

\* BSONObj: the documents handed to matches()
Docs == SeqsUpTo(Fields, MaxFields)

\* BSON_ARRAY() and BSON_ARRAY(1): an array is an object-like value keyed "0", "1", ...
ArrayObjs == {<<>>, <<[fieldName |-> <<"0">>, type |-> "Number", obj |-> <<>>]>>}

\* BSONElement: the elements handed to matchesSingleElement()
Elements ==
    [fieldName : {<<"a">>}, type : LeafTypes, obj : {<<>>}]
    \cup [fieldName : {<<"a">>}, type : {"Array"}, obj : ArrayObjs]
    \cup [fieldName : {<<"a">>}, type : {"Object"}, obj : SeqsUpTo(Fields, 1)]

(***************************************************************************)
(* pcrecpp::RE, for the patterns used here: an optional leading ^ and a    *)
(* literal.                                                                *)
(***************************************************************************)
IsPrefix(p, s) == Len(p) <= Len(s) /\ SubSeq(s, 1, Len(p)) = p

IsSubstring(p, s) ==
    \E k \in 0..(Len(s) - Len(p)) : SubSeq(s, k + 1, k + Len(p)) = p

RECompile(src) ==
    IF Len(src) > 0 /\ src[1] = "^"
    THEN [anchored |-> TRUE, literal |-> SubSeq(src, 2, Len(src))]
    ELSE [anchored |-> FALSE, literal |-> src]

PartialMatch(re, text) ==
    IF re.anchored THEN IsPrefix(re.literal, text) ELSE IsSubstring(re.literal, text)

(***************************************************************************)
(* The match-expression library the node is built on: a $type filter on    *)
(* the placeholder path, and ExpressionWithPlaceholder owning it.          *)
(***************************************************************************)
\* {<path>: {$type: <type>}}
TypeMatchExpression(path, type) == [path |-> path, type |-> type]

\* MatchExpression::matchesSingleElement of a $type filter
FilterMatchesSingleElement(filter, elem) == elem.type = filter.type

\* MatchExpression::equivalent of two $type filters
FilterEquivalent(f, g) == f.path = g.path /\ f.type = g.type

\* MatchExpression::shallowClone of a $type filter
FilterShallowClone(filter) == [path |-> filter.path, type |-> filter.type]

\* stdx::make_unique<ExpressionWithPlaceholder>(placeholder, filter): a new object at
\* address addr, owning filter
ExpressionWithPlaceholder(placeholder, filter, addr) ==
    [placeholder |-> placeholder, filter |-> filter, addr |-> addr]

\* where the allocator puts the i-th child made for the node that slot will hold
\* (0: otherwise; i > 0: the i-th pattern's expression)
Alloc(slot, i) == <<slot, i>>

(***************************************************************************)
(* InternalSchemaAllowedPropertiesMatchExpression                          *)
(***************************************************************************)
\* struct Regex: the compiled regex and its source text
Regex(x) == [regex |-> RECompile(x), serializedRegex |-> x]

\* Regex::clone(): compiled again from the source text
RegexClone(r) == Regex(r.serializedRegex)

\* the node after its constructor
Constructed ==
    [matchType |-> "INTERNAL_SCHEMA_ALLOWED_PROPERTIES",
     properties |-> <<>>,
     patternProperties |-> <<>>,
     otherwise |-> Null,
     boolOtherwise |-> TRUE,
     namePlaceholder |-> ""]

\* invariant(cond): the process aborts when cond is false
InvariantFailed(n) == [aborted |-> TRUE, node |-> n]

\* init(PropertiesSet, PatternArray, Placeholder otherwise, std::string)
initExpression(n, properties, patternProperties, otherwise, namePlaceholder) ==
    IF namePlaceholder = ""
    THEN InvariantFailed(n)
    ELSE [aborted |-> FALSE,
          node |-> [n EXCEPT !.properties = properties,
                             !.patternProperties = patternProperties,
                             !.otherwise = otherwise,
                             !.namePlaceholder = namePlaceholder]]

\* init(PropertiesSet, PatternArray, bool otherwise, std::string)
initBool(n, properties, patternProperties, otherwise, namePlaceholder) ==
    IF Len(patternProperties) > 0 /\ namePlaceholder = ""
    THEN InvariantFailed(n)
    ELSE [aborted |-> FALSE,
          node |-> [n EXCEPT !.properties = properties,
                             !.patternProperties = patternProperties,
                             !.boolOtherwise = otherwise,
                             !.namePlaceholder = namePlaceholder]]

\* _properties.find(name) != _properties.end()
PropertiesFind(properties, name) == \E i \in 1..Len(properties) : properties[i] = name

\* PatternLoop with a bug: a matching pattern does not clear checkOtherwise
RECURSIVE PatternLoop_KeepsCheckOtherwise(_, _, _, _)
PatternLoop_KeepsCheckOtherwise(n, item, i, checkOtherwise) ==
    IF i > Len(n.patternProperties)
    THEN [returned |-> FALSE, checkOtherwise |-> checkOtherwise]
    ELSE LET elem == n.patternProperties[i]
         IN IF /\ PartialMatch(elem.first.regex, item.fieldName)
               /\ ~FilterMatchesSingleElement(elem.second.filter, item)
            THEN [returned |-> TRUE, checkOtherwise |-> FALSE]
            ELSE PatternLoop_KeepsCheckOtherwise(n, item, i + 1, checkOtherwise)

\* PatternLoop with a bug: the first pattern that matches the name decides, and the
\* loop ends there
PatternLoop_FirstMatchDecides(n, item, i, checkOtherwise) ==
    LET hits == {j \in i..Len(n.patternProperties) :
                    PartialMatch(n.patternProperties[j].first.regex, item.fieldName)}
    IN IF hits = {}
       THEN [returned |-> FALSE, checkOtherwise |-> checkOtherwise]
       ELSE LET j == CHOOSE h \in hits : \A g \in hits : h <= g
            IN [returned |-> ~FilterMatchesSingleElement(
                                  n.patternProperties[j].second.filter, item),
                checkOtherwise |-> FALSE]

\* the loop over _patternProperties for one field, from entry i on, as
\* [returned: the loop hit `return false`, checkOtherwise: the flag after the loop]
RECURSIVE PatternLoop(_, _, _, _)
PatternLoop(n, item, i, checkOtherwise) ==
    IF i > Len(n.patternProperties)
    THEN [returned |-> FALSE, checkOtherwise |-> checkOtherwise]
    ELSE LET elem == n.patternProperties[i]
             matchExp == elem.second.filter
         IN IF PartialMatch(elem.first.regex, item.fieldName)
            THEN IF ~FilterMatchesSingleElement(matchExp, item)
                 THEN [returned |-> TRUE, checkOtherwise |-> FALSE]
                 ELSE PatternLoop(n, item, i + 1, FALSE)
            ELSE PatternLoop(n, item, i + 1, checkOtherwise)

\* FieldFails with a bug: a name found in _properties skips the pattern loop
FieldFails_PropertiesShadowPatterns(n, item) ==
    IF PropertiesFind(n.properties, item.fieldName)
    THEN FALSE
    ELSE LET loop == PatternLoop(n, item, 1, TRUE)
         IN IF loop.returned
            THEN TRUE
            ELSE IF loop.checkOtherwise
                 THEN IF n.otherwise # Null
                      THEN ~FilterMatchesSingleElement(n.otherwise[1].filter, item)
                      ELSE ~n.boolOtherwise
                 ELSE FALSE

\* the body of the loop over the fields for one field: TRUE when it hits `return false`
FieldFails(n, item) ==
    LET afterFind == ~PropertiesFind(n.properties, item.fieldName)
        loop == PatternLoop(n, item, 1, afterFind)
    IN IF loop.returned
       THEN TRUE
       ELSE IF loop.checkOtherwise
            THEN IF n.otherwise # Null
                 THEN ~FilterMatchesSingleElement(n.otherwise[1].filter, item)
                 ELSE ~n.boolOtherwise
            ELSE FALSE

\* _matchesObject(obj), from field i on
RECURSIVE MatchesObjectFrom(_, _, _)
MatchesObjectFrom(n, obj, i) ==
    IF i > Len(obj)
    THEN TRUE
    ELSE IF FieldFails(n, obj[i]) THEN FALSE ELSE MatchesObjectFrom(n, obj, i + 1)

_matchesObject(n, obj) == MatchesObjectFrom(n, obj, 1)

\* matches(doc, details)
matches(n, doc) == _matchesObject(n, doc)

\* matchesSingleElement with a bug: no check of the element's type
matchesSingleElement_NoTypeCheck(n, elem) == _matchesObject(n, elem.obj)

matchesSingleElement(n, elem) ==
    IF elem.type # "Object" THEN FALSE ELSE _matchesObject(n, elem.obj)

\* shallowClone with a bug: the clone is always given the boolean otherwise
shallowClone_DropsOtherwise(n, slot) ==
    LET clonedExpressions ==
            [i \in 1..Len(n.patternProperties) |->
                LET elem == n.patternProperties[i]
                IN [first |-> RegexClone(elem.first),
                    second |-> ExpressionWithPlaceholder(
                                   elem.second.placeholder,
                                   FilterShallowClone(elem.second.filter),
                                   Alloc(slot, i))]]
        r == initBool(Constructed,
                      n.properties,
                      clonedExpressions,
                      n.boolOtherwise,
                      n.namePlaceholder)
    IN [aborted |-> r.aborted, newExpression |-> r.node, self |-> n]

\* shallowClone with a bug: the method is not const, so std::move hands the members
\* themselves to init and leaves them empty
shallowClone_MovesMembers(n, slot) ==
    LET clonedExpressions ==
            [i \in 1..Len(n.patternProperties) |->
                LET elem == n.patternProperties[i]
                IN [first |-> RegexClone(elem.first),
                    second |-> ExpressionWithPlaceholder(
                                   elem.second.placeholder,
                                   FilterShallowClone(elem.second.filter),
                                   Alloc(slot, i))]]
        r == IF n.otherwise # Null
             THEN initExpression(Constructed,
                                 n.properties,
                                 clonedExpressions,
                                 <<ExpressionWithPlaceholder(
                                       n.otherwise[1].placeholder,
                                       FilterShallowClone(n.otherwise[1].filter),
                                       Alloc(slot, 0))>>,
                                 n.namePlaceholder)
             ELSE initBool(Constructed,
                           n.properties,
                           clonedExpressions,
                           n.boolOtherwise,
                           n.namePlaceholder)
    IN [aborted |-> r.aborted,
        newExpression |-> r.node,
        self |-> [n EXCEPT !.properties = <<>>, !.namePlaceholder = ""]]

\* shallowClone() const, called on n to make the node that slot will hold, as
\* [aborted: an invariant of init failed, newExpression: the clone,
\*  self: the node it was called on, after the call].
\* std::move of a member of a const object yields a const rvalue, which init's by-value
\* parameters copy: the members of n stay as they were.
shallowClone(n, slot) ==
    LET clonedExpressions ==
            [i \in 1..Len(n.patternProperties) |->
                LET elem == n.patternProperties[i]
                IN [first |-> RegexClone(elem.first),
                    second |-> ExpressionWithPlaceholder(
                                   elem.second.placeholder,
                                   FilterShallowClone(elem.second.filter),
                                   Alloc(slot, i))]]
        r == IF n.otherwise # Null
             THEN initExpression(Constructed,
                                 n.properties,
                                 clonedExpressions,
                                 <<ExpressionWithPlaceholder(
                                       n.otherwise[1].placeholder,
                                       FilterShallowClone(n.otherwise[1].filter),
                                       Alloc(slot, 0))>>,
                                 n.namePlaceholder)
             ELSE initBool(Constructed,
                           n.properties,
                           clonedExpressions,
                           n.boolOtherwise,
                           n.namePlaceholder)
    IN [aborted |-> r.aborted, newExpression |-> r.node, self |-> n]

\* _properties != realOther->_properties: operator!= of two unordered_sets
PropertiesDiffer(p, q) == Range(p) # Range(q)

\* PatternElemEquivalent with a bug: the regex source text is not compared
PatternElemEquivalent_IgnoresRegex(expr1, expr2) ==
    FilterEquivalent(expr1.second.filter, expr2.second.filter)

\* the predicate handed to std::is_permutation
PatternElemEquivalent(expr1, expr2) ==
    /\ FilterEquivalent(expr1.second.filter, expr2.second.filter)
    /\ expr1.first.serializedRegex = expr2.first.serializedRegex

\* IsPermutation with a bug: std::equal, which compares position by position
IsPermutation_Positional(xs, ys) ==
    /\ Len(xs) = Len(ys)
    /\ \A i \in 1..Len(xs) : PatternElemEquivalent(xs[i], ys[i])

\* std::is_permutation(first1, last1, first2, last2, pred): the ranges are equally long
\* and every element of the first has as many matches in the second as in the first
IsPermutation(xs, ys) ==
    /\ Len(xs) = Len(ys)
    /\ \A i \in 1..Len(xs) :
          Cardinality({j \in 1..Len(ys) : PatternElemEquivalent(xs[i], ys[j])})
              = Cardinality({j \in 1..Len(xs) : PatternElemEquivalent(xs[i], xs[j])})

Returns(b) == {[crashed |-> FALSE, value |-> b]}

\* what a build may do once a null unique_ptr is dereferenced: fault, or carry on
\* and return either value
UndefinedBehaviour ==
    {[crashed |-> TRUE, value |-> FALSE],
     [crashed |-> FALSE, value |-> FALSE],
     [crashed |-> FALSE, value |-> TRUE]}

\* equivalent(other), called on n: the set of outcomes the call can have
equivalent(n, other) ==
    IF n.matchType # other.matchType
    THEN Returns(FALSE)
    ELSE IF PropertiesDiffer(n.properties, other.properties)
    THEN Returns(FALSE)
    ELSE IF n.otherwise # Null /\ other.otherwise = Null
    THEN UndefinedBehaviour
    ELSE IF n.otherwise # Null
            /\ (\/ ~FilterEquivalent(n.otherwise[1].filter, other.otherwise[1].filter)
                \/ n.otherwise[1].placeholder # other.otherwise[1].placeholder)
    THEN Returns(FALSE)
    ELSE IF n.otherwise = Null /\ n.boolOtherwise # other.boolOtherwise
    THEN Returns(FALSE)
    ELSE IF n.namePlaceholder # other.namePlaceholder
    THEN Returns(FALSE)
    ELSE Returns(IsPermutation(n.patternProperties, other.patternProperties))

(***************************************************************************)
(* BSON, as serialize builds it: an object is the sequence of its          *)
(* elements, an array an object whose field names are "0", "1", ...        *)
(***************************************************************************)
\* a BSONObjBuilder nothing was appended to
EmptyBuilder == <<>>

BSONElement(fieldName, type, value) ==
    [fieldName |-> fieldName, type |-> type, value |-> value]

\* BSONArrayBuilder: the elements of values under the field names "0", "1", ...
BSONArray(types, values) ==
    [i \in 1..Len(values) |-> BSONElement(ToString(i - 1), types[i], values[i])]

\* BSONObjBuilder::appendRegex(fieldName, regex): a RegEx element without options
AppendRegex(fieldName, regex) ==
    BSONElement(fieldName, "RegEx", [pattern |-> regex, options |-> <<>>])

\* TypeMatchExpression::serialize: {<path>: {$type: <type>}}
FilterSerialize(filter) ==
    <<BSONElement(filter.path, "Object", <<BSONElement("$type", "String", filter.type)>>)>>

\* serialize with otherwise written before patternProperties
serialize_OtherwiseFirst(n) ==
    <<BSONElement("$_internalSchemaAllowedProperties", "Object",
        <<BSONElement("properties", "Array",
              BSONArray([i \in 1..Len(n.properties) |-> "String"], n.properties)),
          BSONElement("namePlaceholder", "String", n.namePlaceholder),
          IF n.otherwise # Null
          THEN BSONElement("otherwise", "Object", FilterSerialize(n.otherwise[1].filter))
          ELSE BSONElement("otherwise", "Bool", n.boolOtherwise),
          BSONElement("patternProperties", "Array",
              BSONArray([i \in 1..Len(n.patternProperties) |-> "Object"],
                        [i \in 1..Len(n.patternProperties) |->
                            <<AppendRegex("regex", n.patternProperties[i].first.serializedRegex),
                              BSONElement("expression", "Object",
                                  FilterSerialize(n.patternProperties[i].second.filter))>>]))>>)>>

\* serialize(BSONObjBuilder* out): what it appends to an empty builder
serialize(n) ==
    <<BSONElement("$_internalSchemaAllowedProperties", "Object",
        <<BSONElement("properties", "Array",
              BSONArray([i \in 1..Len(n.properties) |-> "String"], n.properties)),
          BSONElement("namePlaceholder", "String", n.namePlaceholder),
          BSONElement("patternProperties", "Array",
              BSONArray([i \in 1..Len(n.patternProperties) |-> "Object"],
                        [i \in 1..Len(n.patternProperties) |->
                            <<AppendRegex("regex", n.patternProperties[i].first.serializedRegex),
                              BSONElement("expression", "Object",
                                  FilterSerialize(n.patternProperties[i].second.filter))>>])),
          IF n.otherwise # Null
          THEN BSONElement("otherwise", "Object", FilterSerialize(n.otherwise[1].filter))
          ELSE BSONElement("otherwise", "Bool", n.boolOtherwise)>>)>>


(***************************************************************************)
(* What the client passes to init.                                         *)
(***************************************************************************)
\* the names a properties set is built from
PropertyNames == {<<"a">>, <<"c">>}

\* PropertiesSet values, as the order the set iterates in: {}, and {"a", "c"} both ways
PropertiesSets == {p \in SeqsUpTo(PropertyNames, Cardinality(PropertyNames)) :
                      /\ \A i, j \in 1..Len(p) : i # j => p[i] # p[j]
                      /\ Len(p) # 1}

\* namePlaceholder values; "" is what a caller passes when there is nothing to name
NamePlaceholders == {"", "i"}

\* a pattern as the client writes it: {regex: /<regex>/, expression: {<np>: {$type: <type>}}}
PatternSpecEntries ==
    {[regex |-> <<"a">>, type |-> "String"],
     [regex |-> <<"a">>, type |-> "Number"],
     [regex |-> <<"^", "a">>, type |-> "String"]}

PatternSpecs == SeqsUpTo(PatternSpecEntries, MaxPatterns)

\* the placeholder its sub-expressions are written over
PlaceholderOf(namePlaceholder) == IF namePlaceholder = "" THEN "i" ELSE namePlaceholder

\* the PatternArray built for the node in slot
PatternArray(slot, spec, namePlaceholder) ==
    [i \in 1..Len(spec) |->
        [first |-> Regex(spec[i].regex),
         second |-> ExpressionWithPlaceholder(
                        PlaceholderOf(namePlaceholder),
                        TypeMatchExpression(PlaceholderOf(namePlaceholder), spec[i].type),
                        Alloc(slot, i))]]

\* the Placeholder built for otherwise of the node in slot
OtherwiseExpression(slot, type, namePlaceholder) ==
    <<ExpressionWithPlaceholder(
          PlaceholderOf(namePlaceholder),
          TypeMatchExpression(PlaceholderOf(namePlaceholder), type),
          Alloc(slot, 0))>>

NoElement == [fieldName |-> <<>>, type |-> "none", obj |-> <<>>]

Call(op, self, other, elem, outcome) ==
    [op |-> op, self |-> self, other |-> other, elem |-> elem,
     result |-> outcome.value, crashed |-> outcome.crashed]

Returned(b) == [crashed |-> FALSE, value |-> b]

\* the client holds no returned value
Idle == Call("none", "none", "none", NoElement, Returned(TRUE))

(***************************************************************************)
(* The match-expression library the schema compiler builds its trees from. *)
(* A match node is a record of its kind, its path, its children and the    *)
(* operands its kind uses.                                                 *)
(***************************************************************************)
\* TypeMatchExpression::Type: allNumbers = false, bsonType = EOO unless set
Type(allNumbers, bsonType) == [allNumbers |-> allNumbers, bsonType |-> bsonType]

NoType == Type(FALSE, "EOO")

MatchNode(kind, path, children, type, op, value, pattern) ==
    [kind |-> kind, path |-> path, children |-> children,
     type |-> type, op |-> op, value |-> value, pattern |-> pattern]

AlwaysTrueMatchExpression == MatchNode("AlwaysTrue", "", <<>>, NoType, "", 0, <<>>)

AlwaysFalseMatchExpression == MatchNode("AlwaysFalse", "", <<>>, NoType, "", 0, <<>>)

AndMatchExpression(children) == MatchNode("And", "", children, NoType, "", 0, <<>>)

OrMatchExpression(children) == MatchNode("Or", "", children, NoType, "", 0, <<>>)

InternalSchemaXorMatchExpression(children) ==
    MatchNode("Xor", "", children, NoType, "", 0, <<>>)

NotMatchExpression(child) == MatchNode("Not", "", <<child>>, NoType, "", 0, <<>>)

ExistsMatchExpression(path) == MatchNode("Exists", path, <<>>, NoType, "", 0, <<>>)

\* TypeMatchExpression::init(path, type)
TypeMatchNode(path, type) == MatchNode("Type", path, <<>>, type, "", 0, <<>>)

\* LT, LTE, GT, GTE MatchExpression::init(path, rhs): value is rhs in halves
ComparisonMatchExpression(op, path, rhs) == MatchNode("Comparison", path, <<>>, NoType, op, rhs, <<>>)

\* InternalSchemaMaxLengthMatchExpression / InternalSchemaMinLengthMatchExpression
InternalSchemaStrLengthMatchExpression(op, path, strLen) ==
    MatchNode("StrLength", path, <<>>, NoType, op, strLen, <<>>)

\* RegexMatchExpression::init(path, regex, options = "")
RegexMatchExpression(path, regex) == MatchNode("Regex", path, <<>>, NoType, "", 0, regex)

\* InternalSchemaObjectMatchExpression::init(expr, path)
InternalSchemaObjectMatchExpression(expr, path) ==
    MatchNode("ObjectMatch", path, <<expr>>, NoType, "", 0, <<>>)

\* isNumericBSONType
isNumericBSONType(bsonType) ==
    bsonType \in {"NumberInt", "NumberLong", "NumberDouble", "NumberDecimal"}

\* BSONElement::isNumber
isNumber(elt) == isNumericBSONType(elt.type)

\* the type aliases of the library's alias table that the model uses
TypeAliases ==
    [object |-> Type(FALSE, "Object"),
     string |-> Type(FALSE, "String"),
     int |-> Type(FALSE, "NumberInt"),
     number |-> Type(TRUE, "EOO")]

\* Status and StatusWith<unique_ptr<MatchExpression>>: tree is <<>> for a null pointer
\* and for an error
StatusOK(tree) == [code |-> "OK", reason |-> "", tree |-> tree]

Status(code, reason) == [code |-> code, reason |-> reason, tree |-> <<>>]

\* MatchExpressionParser::parseTypeFromAlias(path, typeAlias)
parseTypeFromAlias(path, typeAlias) ==
    IF typeAlias \in DOMAIN TypeAliases
    THEN StatusOK(<<TypeMatchNode(path, TypeAliases[typeAlias])>>)
    ELSE Status("BadValue", "Unknown string alias for $type")

\* MatchExpressionParser::parseIntegerElementToNonNegativeLong, called on a number: a
\* NumberDouble value is given in halves
parseIntegerElementToNonNegativeLong(elt) ==
    IF elt.type = "NumberDouble" /\ elt.value % 2 # 0
    THEN [code |-> "BadValue", reason |-> "Expected an integer", value |-> 0]
    ELSE LET number == IF elt.type = "NumberDouble" THEN elt.value \div 2 ELSE elt.value
         IN IF number < 0
            THEN [code |-> "BadValue", reason |-> "Expected a positive number", value |-> 0]
            ELSE [code |-> "OK", reason |-> "", value |-> number]

\* the element of obj named fieldName: <<>> when there is none
GetField(obj, fieldName) ==
    IF \E i \in 1..Len(obj) : obj[i].fieldName = fieldName
    THEN <<obj[CHOOSE i \in 1..Len(obj) :
                  /\ obj[i].fieldName = fieldName
                  /\ \A j \in 1..(i - 1) : obj[j].fieldName # fieldName]>>
    ELSE <<>>

\* BSONElement::number, in halves as a NumberDouble value is
NumberInHalves(elt) == IF elt.type = "NumberDouble" THEN elt.value ELSE 2 * elt.value

\* the type of elt is the one a $type of t asks for
TypeMatches(t, elt) ==
    IF t.allNumbers THEN isNumber(elt) ELSE elt.type = t.bsonType

\* the comparison a LT, LTE, GT or GTE node makes
Compare(op, lhs, rhs) ==
    CASE op = "LT" -> lhs < rhs
      [] op = "LTE" -> lhs <= rhs
      [] op = "GT" -> lhs > rhs
      [] op = "GTE" -> lhs >= rhs

\* MatchExpression::matchesBSON(obj) for the trees the compiler builds, on documents
\* without arrays and with undotted paths
RECURSIVE matchesBSON(_, _)
matchesBSON(expr, obj) ==
    LET elt == GetField(obj, expr.path)
        hits == {i \in 1..Len(expr.children) : matchesBSON(expr.children[i], obj)}
    IN CASE expr.kind = "AlwaysTrue" -> TRUE
         [] expr.kind = "AlwaysFalse" -> FALSE
         [] expr.kind = "And" -> Cardinality(hits) = Len(expr.children)
         [] expr.kind = "Or" -> hits # {}
         [] expr.kind = "Xor" -> Cardinality(hits) = 1
         [] expr.kind = "Not" -> hits = {}
         [] expr.kind = "Exists" -> elt # <<>>
         [] expr.kind = "Type" -> elt # <<>> /\ TypeMatches(expr.type, elt[1])
         [] expr.kind = "Comparison" ->
                /\ elt # <<>>
                /\ isNumber(elt[1])
                /\ Compare(expr.op, NumberInHalves(elt[1]), expr.value)
         [] expr.kind = "StrLength" ->
                /\ elt # <<>>
                /\ elt[1].type = "String"
                /\ IF expr.op = "max"
                   THEN Len(elt[1].value) <= expr.value
                   ELSE Len(elt[1].value) >= expr.value
         [] expr.kind = "Regex" ->
                /\ elt # <<>>
                /\ elt[1].type = "String"
                /\ PartialMatch(RECompile(expr.pattern), elt[1].value)
         [] expr.kind = "ObjectMatch" ->
                /\ elt # <<>>
                /\ elt[1].type = "Object"
                /\ matchesBSON(expr.children[1], elt[1].value)

\* MatchExpression::serialize for the trees the compiler builds: what it appends to an
\* empty builder
RECURSIVE TreeSerialize(_)
TreeSerialize(expr) ==
    LET childObjs == BSONArray([i \in 1..Len(expr.children) |-> "Object"],
                               [i \in 1..Len(expr.children) |-> TreeSerialize(expr.children[i])])
        OnPath(operator, type, value) ==
            <<BSONElement(expr.path, "Object", <<BSONElement(operator, type, value)>>)>>
    IN CASE expr.kind = "AlwaysTrue" -> <<BSONElement("$alwaysTrue", "NumberInt", 1)>>
         [] expr.kind = "AlwaysFalse" -> <<BSONElement("$alwaysFalse", "NumberInt", 1)>>
         [] expr.kind = "And" ->
                IF expr.children = <<>> THEN <<>> ELSE <<BSONElement("$and", "Array", childObjs)>>
         [] expr.kind = "Or" -> <<BSONElement("$or", "Array", childObjs)>>
         [] expr.kind = "Xor" -> <<BSONElement("$_internalSchemaXor", "Array", childObjs)>>
         [] expr.kind = "Not" -> <<BSONElement("$nor", "Array", childObjs)>>
         [] expr.kind = "Exists" -> OnPath("$exists", "Bool", TRUE)
         [] expr.kind = "Type" ->
                IF expr.type.allNumbers
                THEN OnPath("$type", "String", "number")
                ELSE OnPath("$type", "String", expr.type.bsonType)
         [] expr.kind = "Comparison" -> OnPath(expr.op, "NumberDouble", expr.value)
         [] expr.kind = "StrLength" -> OnPath(expr.op, "NumberLong", expr.value)
         [] expr.kind = "Regex" -> OnPath("$regex", "String", expr.pattern)
         [] expr.kind = "ObjectMatch" ->
                OnPath("$_internalSchemaObjectMatch", "Object", childObjs[1].value)

\* MatchExpression::equivalent for the trees the compiler builds
RECURSIVE TreeEquivalent(_, _)
TreeEquivalent(expr, other) ==
    /\ expr.kind = other.kind
    /\ expr.path = other.path
    /\ expr.type = other.type
    /\ expr.op = other.op
    /\ expr.value = other.value
    /\ expr.pattern = other.pattern
    /\ Len(expr.children) = Len(other.children)
    /\ \A i \in 1..Len(expr.children) : TreeEquivalent(expr.children[i], other.children[i])

(***************************************************************************)
(* JSONSchemaParser (json_schema_parser.cpp). A schema is a BSON object;   *)
(* a StringData path is a string, empty at the top level.                  *)
(***************************************************************************)
\* the recognized keywords
kSchemaKeywords ==
    {"allOf", "anyOf", "exclusiveMaximum", "exclusiveMinimum", "maximum", "maxLength",
     "minimum", "minLength", "not", "oneOf", "pattern", "properties", "type"}

\* makeRestriction that never looks at statedType
makeRestriction_IgnoresStatedType(restrictionType, restrictionExpr, statedType) ==
    OrMatchExpression(
        <<NotMatchExpression(TypeMatchNode(restrictionExpr.path, restrictionType)),
          restrictionExpr>>)

\* makeRestriction that compares the BSON types only
makeRestriction_TagsOnly(restrictionType, restrictionExpr, statedType) ==
    IF statedType # <<>> /\ restrictionType.bsonType # statedType[1].type.bsonType
    THEN AlwaysTrueMatchExpression
    ELSE OrMatchExpression(
             <<NotMatchExpression(TypeMatchNode(restrictionExpr.path, restrictionType)),
               restrictionExpr>>)

\* makeRestriction(restrictionType, restrictionExpr, statedType): statedType is <<>>
\* for a null pointer
makeRestriction(restrictionType, restrictionExpr, statedType) ==
    LET bothNumeric ==
            /\ restrictionType.allNumbers
            /\ (statedType[1].type.allNumbers \/ isNumericBSONType(statedType[1].type.bsonType))
        bsonTypesMatch == restrictionType.bsonType = statedType[1].type.bsonType
    IN IF statedType # <<>> /\ ~bothNumeric /\ ~bsonTypesMatch
       THEN AlwaysTrueMatchExpression
       ELSE OrMatchExpression(
                <<NotMatchExpression(TypeMatchNode(restrictionExpr.path, restrictionType)),
                  restrictionExpr>>)

\* makeTypeRestriction(typeExpr); its callers pass a non-null typeExpr whose path is not
\* empty
makeTypeRestriction(typeExpr) ==
    OrMatchExpression(<<NotMatchExpression(ExistsMatchExpression(typeExpr.path)), typeExpr>>)

\* parseType(path, typeElt): typeElt is <<>> for an empty BSONElement
parseType(path, typeElt) ==
    IF typeElt = <<>>
    THEN StatusOK(<<>>)
    ELSE IF typeElt[1].type # "String"
    THEN Status("TypeMismatch", "type")
    ELSE parseTypeFromAlias(path, typeElt[1].value)

\* parseMaximum without the return for an empty path
parseMaximum_NoEmptyPathCheck(path, maximum, typeExpr, isExclusiveMaximum) ==
    IF ~isNumber(maximum)
    THEN Status("TypeMismatch", "maximum")
    ELSE StatusOK(<<makeRestriction(
                        Type(TRUE, "EOO"),
                        ComparisonMatchExpression(IF isExclusiveMaximum THEN "LT" ELSE "LTE",
                                                  path, NumberInHalves(maximum)),
                        typeExpr)>>)

\* parseMaximum(path, maximum, typeExpr, isExclusiveMaximum)
parseMaximum(path, maximum, typeExpr, isExclusiveMaximum) ==
    IF ~isNumber(maximum)
    THEN Status("TypeMismatch", "maximum")
    ELSE IF path = ""
    THEN StatusOK(<<AlwaysTrueMatchExpression>>)
    ELSE StatusOK(<<makeRestriction(
                        Type(TRUE, "EOO"),
                        ComparisonMatchExpression(IF isExclusiveMaximum THEN "LT" ELSE "LTE",
                                                  path, NumberInHalves(maximum)),
                        typeExpr)>>)

\* parseMinimum(path, minimum, typeExpr, isExclusiveMinimum)
parseMinimum(path, minimum, typeExpr, isExclusiveMinimum) ==
    IF ~isNumber(minimum)
    THEN Status("TypeMismatch", "minimum")
    ELSE IF path = ""
    THEN StatusOK(<<AlwaysTrueMatchExpression>>)
    ELSE StatusOK(<<makeRestriction(
                        Type(TRUE, "EOO"),
                        ComparisonMatchExpression(IF isExclusiveMinimum THEN "GT" ELSE "GTE",
                                                  path, NumberInHalves(minimum)),
                        typeExpr)>>)

\* parseStrLength that returns for an empty path before it looks at the element
parseStrLength_EmptyPathFirst(path, strLength, typeExpr, keyword) ==
    IF path = ""
    THEN StatusOK(<<AlwaysTrueMatchExpression>>)
    ELSE IF ~isNumber(strLength)
    THEN Status("TypeMismatch", keyword)
    ELSE LET validatedLength == parseIntegerElementToNonNegativeLong(strLength)
         IN IF validatedLength.code # "OK"
            THEN Status(validatedLength.code, validatedLength.reason)
            ELSE StatusOK(<<makeRestriction(
                                Type(FALSE, "String"),
                                InternalSchemaStrLengthMatchExpression(
                                    IF keyword = "maxLength" THEN "max" ELSE "min",
                                    path, validatedLength.value),
                                typeExpr)>>)

\* parseStrLength<T>(path, strLength, typeExpr, keyword): T is the max-length node for
\* maxLength and the min-length node for minLength
parseStrLength(path, strLength, typeExpr, keyword) ==
    IF ~isNumber(strLength)
    THEN Status("TypeMismatch", keyword)
    ELSE LET validatedLength == parseIntegerElementToNonNegativeLong(strLength)
         IN IF validatedLength.code # "OK"
            THEN Status(validatedLength.code, validatedLength.reason)
            ELSE IF path = ""
            THEN StatusOK(<<AlwaysTrueMatchExpression>>)
            ELSE StatusOK(<<makeRestriction(
                                Type(FALSE, "String"),
                                InternalSchemaStrLengthMatchExpression(
                                    IF keyword = "maxLength" THEN "max" ELSE "min",
                                    path, validatedLength.value),
                                typeExpr)>>)

\* parsePattern without the return for an empty path
parsePattern_NoEmptyPathCheck(path, pattern, typeExpr) ==
    IF pattern.type # "String"
    THEN Status("TypeMismatch", "pattern")
    ELSE StatusOK(<<makeRestriction(Type(FALSE, "String"),
                                    RegexMatchExpression(path, pattern.value),
                                    typeExpr)>>)

\* parsePattern(path, pattern, typeExpr)
parsePattern(path, pattern, typeExpr) ==
    IF pattern.type # "String"
    THEN Status("TypeMismatch", "pattern")
    ELSE IF path = ""
    THEN StatusOK(<<AlwaysTrueMatchExpression>>)
    ELSE StatusOK(<<makeRestriction(Type(FALSE, "String"),
                                    RegexMatchExpression(path, pattern.value),
                                    typeExpr)>>)

RECURSIVE _parse(_, _)

\* the results of the nested _parse calls a loop over elements makes, up to and
\* including the first that is not OK
RECURSIVE NestedLoop(_, _, _, _, _)
NestedLoop(elements, i, wrongType, children, keyword) ==
    IF i > Len(elements)
    THEN StatusOK(children)
    ELSE IF elements[i].type # "Object"
    THEN Status(wrongType, keyword)
    ELSE LET nestedSchemaMatch == _parse(elements[i].fieldName, elements[i].value)
         IN IF nestedSchemaMatch.code # "OK"
            THEN nestedSchemaMatch
            ELSE NestedLoop(elements, i + 1, wrongType,
                            Append(children, nestedSchemaMatch.tree[1]), keyword)

\* _parseLogicalOf that adds the nested schemas of oneOf to an Or
_parseLogicalOf_OneOfIsOr(path, logicalOf, typeExpr, keyword) ==
    IF logicalOf.type # "Array"
    THEN Status("TypeMismatch", keyword)
    ELSE IF logicalOf.value = <<>>
    THEN Status("BadValue", keyword)
    ELSE LET loop == NestedLoop(logicalOf.value, 1, "FailedToParse", <<>>, keyword)
             listOfExpr == CASE keyword = "allOf" -> AndMatchExpression(loop.tree)
                             [] keyword = "anyOf" -> OrMatchExpression(loop.tree)
                             [] keyword = "oneOf" -> OrMatchExpression(loop.tree)
         IN IF loop.code # "OK"
            THEN loop
            ELSE IF path = ""
            THEN StatusOK(<<listOfExpr>>)
            ELSE StatusOK(<<makeRestriction(
                                Type(FALSE, "Object"),
                                InternalSchemaObjectMatchExpression(listOfExpr, path),
                                typeExpr)>>)

\* _parseLogicalOf(path, logicalOf, typeExpr, keyword)
_parseLogicalOf(path, logicalOf, typeExpr, keyword) ==
    IF logicalOf.type # "Array"
    THEN Status("TypeMismatch", keyword)
    ELSE IF logicalOf.value = <<>>
    THEN Status("BadValue", keyword)
    ELSE LET loop == NestedLoop(logicalOf.value, 1, "FailedToParse", <<>>, keyword)
             listOfExpr == CASE keyword = "allOf" -> AndMatchExpression(loop.tree)
                             [] keyword = "anyOf" -> OrMatchExpression(loop.tree)
                             [] keyword = "oneOf" -> InternalSchemaXorMatchExpression(loop.tree)
         IN IF loop.code # "OK"
            THEN loop
            ELSE IF path = ""
            THEN StatusOK(<<listOfExpr>>)
            ELSE StatusOK(<<makeRestriction(
                                Type(FALSE, "Object"),
                                InternalSchemaObjectMatchExpression(listOfExpr, path),
                                typeExpr)>>)

\* _parseNot without the return for an empty path
_parseNot_NoEmptyPathCheck(path, logicalNot, typeExpr) ==
    IF logicalNot.type # "Object"
    THEN Status("FailedToParse", logicalNot.fieldName)
    ELSE LET nested == _parse(logicalNot.fieldName, logicalNot.value)
         IN IF nested.code # "OK"
            THEN nested
            ELSE StatusOK(<<makeRestriction(
                                Type(FALSE, "Object"),
                                InternalSchemaObjectMatchExpression(
                                    NotMatchExpression(nested.tree[1]), path),
                                typeExpr)>>)

\* _parseNot(path, logicalNot, typeExpr)
_parseNot(path, logicalNot, typeExpr) ==
    IF logicalNot.type # "Object"
    THEN Status("FailedToParse", logicalNot.fieldName)
    ELSE LET nested == _parse(logicalNot.fieldName, logicalNot.value)
         IN IF nested.code # "OK"
            THEN nested
            ELSE IF path = ""
            THEN StatusOK(<<NotMatchExpression(nested.tree[1])>>)
            ELSE StatusOK(<<makeRestriction(
                                Type(FALSE, "Object"),
                                InternalSchemaObjectMatchExpression(
                                    NotMatchExpression(nested.tree[1]), path),
                                typeExpr)>>)

\* _parseProperties(path, propertiesElt, typeExpr)
_parseProperties(path, propertiesElt, typeExpr) ==
    IF propertiesElt.type # "Object"
    THEN Status("TypeMismatch", "properties")
    ELSE LET loop == NestedLoop(propertiesElt.value, 1, "TypeMismatch", <<>>, "properties")
         IN IF loop.code # "OK"
            THEN loop
            ELSE IF path = ""
            THEN StatusOK(<<AndMatchExpression(loop.tree)>>)
            ELSE StatusOK(<<makeRestriction(
                                Type(FALSE, "Object"),
                                InternalSchemaObjectMatchExpression(
                                    AndMatchExpression(loop.tree), path),
                                typeExpr)>>)

\* the loop that fills keywordMap, passing over a key that is no keyword
RECURSIVE KeywordMapLoop_SkipsUnknown(_, _, _)
KeywordMapLoop_SkipsUnknown(schema, i, keywordMap) ==
    IF i > Len(schema)
    THEN [status |-> StatusOK(<<>>), keywordMap |-> keywordMap]
    ELSE IF schema[i].fieldName \notin DOMAIN keywordMap
    THEN KeywordMapLoop_SkipsUnknown(schema, i + 1, keywordMap)
    ELSE IF keywordMap[schema[i].fieldName] # <<>>
    THEN [status |-> Status("FailedToParse", "Duplicate $jsonSchema keyword"),
          keywordMap |-> keywordMap]
    ELSE KeywordMapLoop_SkipsUnknown(schema, i + 1,
                                     [keywordMap EXCEPT ![schema[i].fieldName] = <<schema[i]>>])

\* the loop that fills keywordMap, stopping before the last element of the schema
RECURSIVE KeywordMapLoop_LastKeyUnchecked(_, _, _)
KeywordMapLoop_LastKeyUnchecked(schema, i, keywordMap) ==
    IF i >= Len(schema)
    THEN [status |-> StatusOK(<<>>), keywordMap |-> keywordMap]
    ELSE IF schema[i].fieldName \notin DOMAIN keywordMap
    THEN [status |-> Status("FailedToParse", "Unknown $jsonSchema keyword"),
          keywordMap |-> keywordMap]
    ELSE IF keywordMap[schema[i].fieldName] # <<>>
    THEN [status |-> Status("FailedToParse", "Duplicate $jsonSchema keyword"),
          keywordMap |-> keywordMap]
    ELSE KeywordMapLoop_LastKeyUnchecked(schema, i + 1,
                                         [keywordMap EXCEPT ![schema[i].fieldName] = <<schema[i]>>])

\* _parse, the loop that fills keywordMap: the status it ends with, and the map
RECURSIVE KeywordMapLoop(_, _, _)
KeywordMapLoop(schema, i, keywordMap) ==
    IF i > Len(schema)
    THEN [status |-> StatusOK(<<>>), keywordMap |-> keywordMap]
    ELSE IF schema[i].fieldName \notin DOMAIN keywordMap
    THEN [status |-> Status("FailedToParse", "Unknown $jsonSchema keyword"),
          keywordMap |-> keywordMap]
    ELSE IF keywordMap[schema[i].fieldName] # <<>>
    THEN [status |-> Status("FailedToParse", "Duplicate $jsonSchema keyword"),
          keywordMap |-> keywordMap]
    ELSE KeywordMapLoop(schema, i + 1,
                        [keywordMap EXCEPT ![schema[i].fieldName] = <<schema[i]>>])

\* BSONElement::isBoolean
isBoolean(elt) == elt.type = "Bool"

\* the maximum / exclusiveMaximum block without the check for a lone exclusiveMaximum
MaximumBlock_NoCompanionCheck(path, keywordMap, typeExpr) ==
    IF keywordMap["maximum"] # <<>>
    THEN IF keywordMap["exclusiveMaximum"] # <<>> /\ ~isBoolean(keywordMap["exclusiveMaximum"][1])
         THEN <<Status("TypeMismatch", "exclusiveMaximum")>>
         ELSE <<parseMaximum(path, keywordMap["maximum"][1], typeExpr,
                             IF keywordMap["exclusiveMaximum"] # <<>>
                             THEN keywordMap["exclusiveMaximum"][1].value
                             ELSE FALSE)>>
    ELSE <<>>

\* _parse, the maximum / exclusiveMaximum block: <<>> when it adds nothing, else what
\* it returns or adds
MaximumBlock(path, keywordMap, typeExpr) ==
    IF keywordMap["maximum"] # <<>>
    THEN IF keywordMap["exclusiveMaximum"] # <<>> /\ ~isBoolean(keywordMap["exclusiveMaximum"][1])
         THEN <<Status("TypeMismatch", "exclusiveMaximum")>>
         ELSE <<parseMaximum(path, keywordMap["maximum"][1], typeExpr,
                             IF keywordMap["exclusiveMaximum"] # <<>>
                             THEN keywordMap["exclusiveMaximum"][1].value
                             ELSE FALSE)>>
    ELSE IF keywordMap["exclusiveMaximum"] # <<>>
    THEN <<Status("FailedToParse", "maximum")>>
    ELSE <<>>

\* the minimum / exclusiveMinimum block that checks exclusiveMinimum and then ignores it
MinimumBlock_ExclusiveIgnored(path, keywordMap, typeExpr) ==
    IF keywordMap["minimum"] # <<>>
    THEN IF keywordMap["exclusiveMinimum"] # <<>> /\ ~isBoolean(keywordMap["exclusiveMinimum"][1])
         THEN <<Status("TypeMismatch", "exclusiveMinimum")>>
         ELSE <<parseMinimum(path, keywordMap["minimum"][1], typeExpr, FALSE)>>
    ELSE IF keywordMap["exclusiveMinimum"] # <<>>
    THEN <<Status("FailedToParse", "minimum")>>
    ELSE <<>>

\* _parse, the minimum / exclusiveMinimum block
MinimumBlock(path, keywordMap, typeExpr) ==
    IF keywordMap["minimum"] # <<>>
    THEN IF keywordMap["exclusiveMinimum"] # <<>> /\ ~isBoolean(keywordMap["exclusiveMinimum"][1])
         THEN <<Status("TypeMismatch", "exclusiveMinimum")>>
         ELSE <<parseMinimum(path, keywordMap["minimum"][1], typeExpr,
                             IF keywordMap["exclusiveMinimum"] # <<>>
                             THEN keywordMap["exclusiveMinimum"][1].value
                             ELSE FALSE)>>
    ELSE IF keywordMap["exclusiveMinimum"] # <<>>
    THEN <<Status("FailedToParse", "minimum")>>
    ELSE <<>>

\* _parse, the blocks of the keywords in the order the code runs them
KeywordBlocks(path, keywordMap, typeExpr) ==
    (IF keywordMap["properties"] # <<>>
     THEN <<_parseProperties(path, keywordMap["properties"][1], typeExpr)>> ELSE <<>>)
    \o MaximumBlock(path, keywordMap, typeExpr)
    \o MinimumBlock(path, keywordMap, typeExpr)
    \o (IF keywordMap["maxLength"] # <<>>
        THEN <<parseStrLength(path, keywordMap["maxLength"][1], typeExpr, "maxLength")>>
        ELSE <<>>)
    \o (IF keywordMap["minLength"] # <<>>
        THEN <<parseStrLength(path, keywordMap["minLength"][1], typeExpr, "minLength")>>
        ELSE <<>>)
    \o (IF keywordMap["pattern"] # <<>>
        THEN <<parsePattern(path, keywordMap["pattern"][1], typeExpr)>> ELSE <<>>)
    \o (IF keywordMap["allOf"] # <<>>
        THEN <<_parseLogicalOf(path, keywordMap["allOf"][1], typeExpr, "allOf")>> ELSE <<>>)
    \o (IF keywordMap["anyOf"] # <<>>
        THEN <<_parseLogicalOf(path, keywordMap["anyOf"][1], typeExpr, "anyOf")>> ELSE <<>>)
    \o (IF keywordMap["oneOf"] # <<>>
        THEN <<_parseLogicalOf(path, keywordMap["oneOf"][1], typeExpr, "oneOf")>> ELSE <<>>)
    \o (IF keywordMap["not"] # <<>>
        THEN <<_parseNot(path, keywordMap["not"][1], typeExpr)>> ELSE <<>>)

\* what _parse returns when the top-level short-circuit passes over the "number" alias,
\* whose type has no BSON type of its own
ReturnAndExpr_NumberIsNoType(path, typeExpr, children) ==
    IF /\ path = ""
       /\ typeExpr # <<>>
       /\ ~typeExpr[1].type.allNumbers
       /\ typeExpr[1].type.bsonType # "Object"
    THEN StatusOK(<<AlwaysFalseMatchExpression>>)
    ELSE IF path # "" /\ typeExpr # <<>>
    THEN StatusOK(<<AndMatchExpression(Append(children, makeTypeRestriction(typeExpr[1])))>>)
    ELSE StatusOK(<<AndMatchExpression(children)>>)

\* what _parse returns when the nested type restriction is put before the other children
ReturnAndExpr_TypeRestrictionFirst(path, typeExpr, children) ==
    IF path = "" /\ typeExpr # <<>> /\ typeExpr[1].type.bsonType # "Object"
    THEN StatusOK(<<AlwaysFalseMatchExpression>>)
    ELSE IF path # "" /\ typeExpr # <<>>
    THEN StatusOK(<<AndMatchExpression(<<makeTypeRestriction(typeExpr[1])>> \o children)>>)
    ELSE StatusOK(<<AndMatchExpression(children)>>)

\* _parse, after every keyword parsed: what it returns for the children added to andExpr
ReturnAndExpr(path, typeExpr, children) ==
    IF path = "" /\ typeExpr # <<>> /\ typeExpr[1].type.bsonType # "Object"
    THEN StatusOK(<<AlwaysFalseMatchExpression>>)
    ELSE IF path # "" /\ typeExpr # <<>>
    THEN StatusOK(<<AndMatchExpression(Append(children, makeTypeRestriction(typeExpr[1])))>>)
    ELSE StatusOK(<<AndMatchExpression(children)>>)

\* _parse that goes on after a keyword failed and returns the error of the last one
\* that failed
_parse_LastFailureWins(path, schema) ==
    LET loop == KeywordMapLoop(schema, 1, [keyword \in kSchemaKeywords |-> <<>>])
        typeExpr == parseType(path, loop.keywordMap["type"])
        blocks == KeywordBlocks(path, loop.keywordMap, typeExpr.tree)
        failed == {i \in 1..Len(blocks) : blocks[i].code # "OK"}
    IN IF loop.status.code # "OK"
       THEN loop.status
       ELSE IF typeExpr.code # "OK"
       THEN typeExpr
       ELSE IF failed # {}
       THEN blocks[CHOOSE i \in failed : \A j \in failed : i >= j]
       ELSE ReturnAndExpr(path, typeExpr.tree, [i \in 1..Len(blocks) |-> blocks[i].tree[1]])

\* _parse(path, schema)
_parse(path, schema) ==
    LET loop == KeywordMapLoop(schema, 1, [keyword \in kSchemaKeywords |-> <<>>])
        typeExpr == parseType(path, loop.keywordMap["type"])
        blocks == KeywordBlocks(path, loop.keywordMap, typeExpr.tree)
        failed == {i \in 1..Len(blocks) : blocks[i].code # "OK"}
    IN IF loop.status.code # "OK"
       THEN loop.status
       ELSE IF typeExpr.code # "OK"
       THEN typeExpr
       ELSE IF failed # {}
       THEN blocks[CHOOSE i \in failed : \A j \in failed : i <= j]
       ELSE ReturnAndExpr(path, typeExpr.tree, [i \in 1..Len(blocks) |-> blocks[i].tree[1]])

\* JSONSchemaParser::parse(schema)
parse(schema) == _parse("", schema)

\* the compiler's client has no schema and no compiled tree yet
NoSchema == [schema |-> <<>>, serializedFrom |-> <<>>]

NotCompiled == [code |-> "none", reason |-> "", tree |-> <<>>]

(***************************************************************************)
(* State: node[s] is the node slot s holds, pc[s] how it came to be        *)
(* ("constructed", "initialized", "cloned"), last the call whose returned   *)
(* value the client holds, proc whether the process still runs, out the     *)
(* builder the client passed to serialize; input is the schema the client  *)
(* last compiled (with the tree it was serialized from, if any) and result *)
(* what the compiler returned for it.                                      *)
(***************************************************************************)
Init ==
    /\ node = [s \in Slots |-> Constructed]
    /\ pc = [s \in Slots |-> "constructed"]
    /\ last = Idle
    /\ proc = "running"
    /\ out = EmptyBuilder
    /\ input = NoSchema
    /\ result = NotCompiled

\* the effect of an init call that returned r on the node in slot s
InitReturns(s, r) ==
    IF r.aborted
    THEN /\ proc' = "aborted"
         /\ UNCHANGED <<node, pc, last, out, compilerVars>>
    ELSE /\ node' = [node EXCEPT ![s] = r.node]
         /\ pc' = [pc EXCEPT ![s] = "initialized"]
         /\ UNCHANGED <<last, proc, out, compilerVars>>

\* node[s]->init(properties, patternProperties, otherwise expression, namePlaceholder)
InitWithExpression(s, properties, spec, type, namePlaceholder) ==
    /\ proc = "running"
    /\ last = Idle
    /\ InitReturns(s, initExpression(node[s],
                                     properties,
                                     PatternArray(s, spec, namePlaceholder),
                                     OtherwiseExpression(s, type, namePlaceholder),
                                     namePlaceholder))

\* node[s]->init(properties, patternProperties, bool otherwise, namePlaceholder)
InitWithBool(s, properties, spec, otherwise, namePlaceholder) ==
    /\ proc = "running"
    /\ last = Idle
    /\ InitReturns(s, initBool(node[s],
                               properties,
                               PatternArray(s, spec, namePlaceholder),
                               otherwise,
                               namePlaceholder))

\* node[t] = node[s]->shallowClone()
ShallowClone(s, t) ==
    /\ proc = "running"
    /\ last = Idle
    /\ s # t
    /\ LET r == shallowClone(node[s], t)
       IN IF r.aborted
          THEN /\ proc' = "aborted"
               /\ UNCHANGED <<node, pc, last, out, compilerVars>>
          ELSE /\ node' = [node EXCEPT ![s] = r.self, ![t] = r.newExpression]
               /\ pc' = [pc EXCEPT ![t] = "cloned"]
               /\ last' = Call("shallowClone", s, t, NoElement, Returned(TRUE))
               /\ UNCHANGED <<proc, out, compilerVars>>

\* node[s]->matches(doc)
Matches(s, doc) ==
    /\ proc = "running"
    /\ last = Idle
    /\ last' = Call("matches", s, "none",
                    [fieldName |-> <<>>, type |-> "Object", obj |-> doc],
                    Returned(matches(node[s], doc)))
    /\ UNCHANGED <<node, pc, proc, out, compilerVars>>

\* node[s]->matchesSingleElement(elem)
MatchesSingleElement(s, elem) ==
    /\ proc = "running"
    /\ last = Idle
    /\ last' = Call("matchesSingleElement", s, "none", elem,
                    Returned(matchesSingleElement(node[s], elem)))
    /\ UNCHANGED <<node, pc, proc, out, compilerVars>>

\* node[s]->equivalent(node[t].get())
Equivalent(s, t) ==
    /\ proc = "running"
    /\ last = Idle
    /\ s # t
    /\ \E outcome \in equivalent(node[s], node[t]) :
          /\ last' = Call("equivalent", s, t, NoElement, outcome)
          /\ proc' = IF outcome.crashed THEN "crashed" ELSE proc
    /\ UNCHANGED <<node, pc, out, compilerVars>>

\* node[s]->serialize(&out), out a builder the client has just made
Serialize(s) ==
    /\ proc = "running"
    /\ last = Idle
    /\ out' = serialize(node[s])
    /\ last' = Call("serialize", s, "none", NoElement, Returned(TRUE))
    /\ UNCHANGED <<node, pc, proc, compilerVars>>

\* the client drops the value the last call returned, and the builder it wrote to
Discard ==
    /\ proc = "running"
    /\ last # Idle
    /\ last' = Idle
    /\ out' = EmptyBuilder
    /\ UNCHANGED <<node, pc, proc, compilerVars>>

\* The matching client: it initialises the node in slot a once, clones it into slot b,
\* and matches documents and elements against both.
Next ==
    \/ \E p \in PropertiesSets, spec \in PatternSpecs, type \in LeafTypes,
          np \in NamePlaceholders :
          pc["a"] = "constructed" /\ InitWithExpression("a", p, spec, type, np)
    \/ \E p \in PropertiesSets, spec \in PatternSpecs, b \in BOOLEAN,
          np \in NamePlaceholders :
          pc["a"] = "constructed" /\ InitWithBool("a", p, spec, b, np)
    \/ ShallowClone("a", "b")
    \/ \E doc \in Docs : Matches("a", doc)
    \/ \E elem \in Elements : MatchesSingleElement("a", elem)
    \/ Serialize("a")
    \/ Discard

Spec == Init /\ [][Next]_vars

\* The comparing client: it initialises both nodes once, or clones one into the other,
\* and asks each whether it is equivalent to the other.
NextEquiv ==
    \/ \E s \in Slots, p \in PropertiesSets, spec \in PatternSpecs, type \in LeafTypes,
          np \in NamePlaceholders :
          pc[s] = "constructed" /\ InitWithExpression(s, p, spec, type, np)
    \/ \E s \in Slots, p \in PropertiesSets, spec \in PatternSpecs, b \in BOOLEAN,
          np \in NamePlaceholders :
          pc[s] = "constructed" /\ InitWithBool(s, p, spec, b, np)
    \/ \E s, t \in Slots : Equivalent(s, t)
    \/ Discard

SpecEquiv == Init /\ [][NextEquiv]_vars

\* the patterns the re-initialising client passes: none, or one
ReinitPatternSpecs == {spec \in PatternSpecs : Len(spec) <= 1}

\* The re-initialising client: it calls init on the node in slot a any number of times,
\* with either overload, and clones it into slot b.
NextReinit ==
    \/ \E p \in PropertiesSets, spec \in ReinitPatternSpecs, type \in LeafTypes,
          np \in NamePlaceholders :
          InitWithExpression("a", p, spec, type, np)
    \/ \E p \in PropertiesSets, spec \in ReinitPatternSpecs, b \in BOOLEAN,
          np \in NamePlaceholders :
          InitWithBool("a", p, spec, b, np)
    \/ ShallowClone("a", "b")
    \/ Discard

SpecReinit == Init /\ [][NextReinit]_vars

(***************************************************************************)
(* The schemas the compiler's client passes to JSONSchemaParser::parse.    *)
(***************************************************************************)
\* the most keywords a sub-schema without nested schemas has
MaxKeywords == 2

\* keyword elements that hold no nested schema: valid ones and ones of a wrong type or
\* value, and a key that is no keyword
LeafElements ==
    {BSONElement("type", "String", alias) : alias \in {"object", "string", "number", "int", "bogus"}}
    \cup {BSONElement("type", "NumberInt", 5),
          BSONElement("maximum", "NumberInt", 5),
          BSONElement("maximum", "String", "x"),
          BSONElement("exclusiveMaximum", "Bool", TRUE),
          BSONElement("exclusiveMaximum", "Bool", FALSE),
          BSONElement("exclusiveMaximum", "NumberInt", 1),
          BSONElement("minimum", "NumberInt", 3),
          BSONElement("minimum", "String", "x"),
          BSONElement("exclusiveMinimum", "Bool", TRUE),
          BSONElement("exclusiveMinimum", "Bool", FALSE),
          BSONElement("exclusiveMinimum", "NumberInt", 1),
          BSONElement("maxLength", "NumberInt", 1),
          BSONElement("maxLength", "NumberInt", -1),
          BSONElement("maxLength", "NumberDouble", 3),
          BSONElement("maxLength", "String", "x"),
          BSONElement("minLength", "NumberInt", 2),
          BSONElement("minLength", "NumberInt", -1),
          BSONElement("minLength", "NumberDouble", 1),
          BSONElement("minLength", "String", "x"),
          BSONElement("pattern", "String", <<"^", "a">>),
          BSONElement("pattern", "NumberInt", 5),
          BSONElement("foo", "NumberInt", 1)}

\* the keyword elements that hold sub as their one nested schema; a property may have
\* the empty name
NestingElements(sub) ==
    {BSONElement("properties", "Object", <<BSONElement("a", "Object", sub)>>),
     BSONElement("properties", "Object", <<BSONElement("", "Object", sub)>>),
     BSONElement("allOf", "Array", BSONArray(<<"Object">>, <<sub>>)),
     BSONElement("anyOf", "Array", BSONArray(<<"Object">>, <<sub>>)),
     BSONElement("oneOf", "Array", BSONArray(<<"Object">>, <<sub>>)),
     BSONElement("not", "Object", sub)}

\* sub-schemas used below a nested schema and next to other ones
SmallSchemas ==
    {<<>>,
     <<BSONElement("maximum", "NumberInt", 5)>>,
     <<BSONElement("type", "String", "string"), BSONElement("maxLength", "NumberInt", 1)>>,
     <<BSONElement("foo", "NumberInt", 1)>>}

\* nesting keywords with a value that is no nested schema, or with several, or with a
\* property whose name is empty
OddNestingElements ==
    {BSONElement("properties", "NumberInt", 5),
     BSONElement("properties", "Object", <<BSONElement("a", "NumberInt", 5)>>),
     BSONElement("allOf", "NumberInt", 5),
     BSONElement("anyOf", "Object", <<>>),
     BSONElement("oneOf", "String", "x"),
     BSONElement("allOf", "Array", <<>>),
     BSONElement("anyOf", "Array", BSONArray(<<"NumberInt">>, <<5>>)),
     BSONElement("not", "NumberInt", 5)}
    \cup {BSONElement(keyword, "Array", BSONArray(<<"Object", "Object">>, <<s1, s2>>)) :
             keyword \in {"allOf", "oneOf"}, s1 \in SmallSchemas, s2 \in SmallSchemas}
    \cup {BSONElement("properties", "Object",
                      <<BSONElement("a", "Object", s1), BSONElement("b", "Object", s2)>>) :
             s1 \in SmallSchemas, s2 \in SmallSchemas}
    \cup {BSONElement("properties", "Object", <<BSONElement("", "Object", s1)>>) :
             s1 \in SmallSchemas}

\* a type keyword and a nesting keyword, in the sub-schema of a property
TypedNestedSchemas ==
    UNION {{<<BSONElement("properties", "Object",
                 <<BSONElement(name, "Object", <<BSONElement("type", "String", alias), e>>)>>)>> :
               alias \in {"object", "string"}, e \in UNION {NestingElements(s) : s \in SmallSchemas}} :
           name \in {"a", ""}}

\* a nesting keyword alone in the sub-schema of the property with the empty name
NestedBelowEmptyName ==
    {<<BSONElement("properties", "Object", <<BSONElement("", "Object", <<e>>)>>)>> :
        e \in UNION {NestingElements(s) : s \in SmallSchemas}}

\* what the client compiles besides a schema without nested schemas and a schema that
\* is one nesting keyword over such a schema
OtherSchemas ==
    {prefix \o <<e>> : prefix \in SeqsUpTo(LeafElements, 1), e \in OddNestingElements}
    \cup {<<t, e>> : t \in {BSONElement("type", "String", alias) : alias \in {"object", "string"}},
                     e \in UNION {NestingElements(s) : s \in SmallSchemas}}
    \cup TypedNestedSchemas
    \cup NestedBelowEmptyName

\* the documents trees are matched against: no field, or one field
DocValues ==
    {BSONElement("", "String", <<"a">>),
     BSONElement("", "String", <<"b", "b">>),
     BSONElement("", "NumberInt", 2),
     BSONElement("", "NumberInt", 7),
     BSONElement("", "Object", <<>>),
     BSONElement("", "Object", <<BSONElement("a", "String", <<"a", "b">>)>>),
     BSONElement("", "Object", <<BSONElement("0", "NumberInt", 7)>>)}

MatchDocs ==
    {<<>>} \cup {<<BSONElement(name, v.type, v.value)>> : name \in {"a", "0", "not"}, v \in DocValues}

\* result = JSONSchemaParser::parse(schema)
Compile(schema) ==
    /\ result = NotCompiled
    /\ input' = [schema |-> schema, serializedFrom |-> <<>>]
    /\ result' = parse(schema)
    /\ UNCHANGED <<node, pc, last, proc, out>>

\* the client serializes the tree it was returned and compiles the serialized form
Recompile ==
    /\ result.code = "OK"
    /\ input.serializedFrom = <<>>
    /\ input' = [schema |-> TreeSerialize(result.tree[1]), serializedFrom |-> result.tree]
    /\ result' = parse(TreeSerialize(result.tree[1]))
    /\ UNCHANGED <<node, pc, last, proc, out>>

\* the client drops the tree, or the error, it was returned
Drop ==
    /\ result # NotCompiled
    /\ input' = NoSchema
    /\ result' = NotCompiled
    /\ UNCHANGED <<node, pc, last, proc, out>>

\* The compiling client: it compiles a schema of up to MaxKeywords keywords without
\* nested schemas, or one nesting keyword over such a schema, or one of OtherSchemas
NextCompile ==
    \/ /\ result = NotCompiled
       /\ \E k \in 0..MaxKeywords : \E schema \in [1..k -> LeafElements] : Compile(schema)
    \/ /\ result = NotCompiled
       /\ \E k \in 0..MaxKeywords : \E sub \in [1..k -> LeafElements] :
             \E e \in NestingElements(sub) : Compile(<<e>>)
    \/ /\ result = NotCompiled
       /\ \E schema \in OtherSchemas : Compile(schema)
    \/ Recompile
    \/ Drop

SpecCompile == Init /\ [][NextCompile]_vars

(***************************************************************************)
(* Properties.                                                             *)
(***************************************************************************)
\* the permutations of 1..n
Perms(n) == {f \in [1..n -> 1..n] : \A i, j \in 1..n : f[i] = f[j] => i = j}

Permute(seq, f) == [i \in 1..Len(seq) |-> seq[f[i]]]

\* the patternProperties entries of n whose regex partially matches name
Hits(n, name) ==
    {i \in 1..Len(n.patternProperties) :
        PartialMatch(n.patternProperties[i].first.regex, name)}

\* the patternProperties entry i of n accepts the field
PatternAccepts(n, i, item) ==
    FilterMatchesSingleElement(n.patternProperties[i].second.filter, item)

\* otherwise accepts the field: the sub-expression matches it when otherwise is a
\* sub-expression, the boolean is true when it is a boolean
OtherwiseAccepts(n, item) ==
    IF n.otherwise # Null
    THEN FilterMatchesSingleElement(n.otherwise[1].filter, item)
    ELSE n.boolOtherwise

\* the verdict the specification gives for node n and document doc
SpecifiedVerdict(n, doc) ==
    \A k \in 1..Len(doc) :
        /\ \A i \in Hits(n, doc[k].fieldName) : PatternAccepts(n, i, doc[k])
        /\ (doc[k].fieldName \notin Range(n.properties) /\ Hits(n, doc[k].fieldName) = {})
              => OtherwiseAccepts(n, doc[k])

\* the client holds the verdict of a call that took an object
MatchedObject ==
    /\ last.op \in {"matches", "matchesSingleElement"}
    /\ last.elem.type = "Object"

\* C1: the verdict on an object is true exactly when every field passes every pattern
\* whose regex partially matches its name and, when its name is neither in properties
\* nor matched by a regex, is accepted by otherwise.
C1_VerdictIsSpecified ==
    MatchedObject => last.result = SpecifiedVerdict(node[last.self], last.elem.obj)

\* C1: a two-field document rejected because otherwise refuses a field that is in no
\* list, while its other field passes a matching pattern.
C1_Witness ==
    /\ last.op = "matches"
    /\ ~last.result
    /\ Len(last.elem.obj) = 2
    /\ LET n == node[last.self]
           doc == last.elem.obj
       IN /\ n.otherwise # Null
          /\ Hits(n, doc[1].fieldName) # {}
          /\ \A i \in Hits(n, doc[1].fieldName) : PatternAccepts(n, i, doc[1])
          /\ Hits(n, doc[2].fieldName) = {}
          /\ doc[2].fieldName \notin Range(n.properties)
          /\ ~OtherwiseAccepts(n, doc[2])

\* C2: matchesSingleElement returns false for every element that is not an Object,
\* whatever the node holds.
C2_NonObjectRejected ==
    (last.op = "matchesSingleElement" /\ last.elem.type # "Object") => ~last.result

\* C2: a non-empty array is rejected by a node that accepts every object (otherwise
\* true, nothing else set).
C2_Witness ==
    /\ last.op = "matchesSingleElement"
    /\ last.elem.type = "Array"
    /\ Len(last.elem.obj) > 0
    /\ ~last.result
    /\ LET n == node[last.self]
       IN /\ n.otherwise = Null
          /\ n.boolOtherwise
          /\ n.properties = <<>>
          /\ n.patternProperties = <<>>
          /\ _matchesObject(n, last.elem.obj)

\* the field's name is in properties
InProperties(n, item) == item.fieldName \in Range(n.properties)

\* C3: a field whose name is in properties is still checked against every pattern that
\* matches its name, so a rejecting pattern rejects the document; membership only keeps
\* otherwise from being consulted: a one-field document whose field is in properties
\* and passes its matching patterns is accepted whatever otherwise is.
C3_PropertiesDoNotSuppressPatterns ==
    MatchedObject =>
        LET n == node[last.self]
            doc == last.elem.obj
        IN /\ (\E k \in 1..Len(doc) :
                  /\ InProperties(n, doc[k])
                  /\ \E i \in Hits(n, doc[k].fieldName) : ~PatternAccepts(n, i, doc[k]))
              => ~last.result
           /\ (/\ Len(doc) = 1
               /\ InProperties(n, doc[1])
               /\ \A i \in Hits(n, doc[1].fieldName) : PatternAccepts(n, i, doc[1]))
              => last.result

\* C3: a one-field document is rejected by a pattern although its field's name is in
\* properties and otherwise would have accepted the field.
C3_Witness ==
    /\ last.op = "matches"
    /\ ~last.result
    /\ Len(last.elem.obj) = 1
    /\ LET n == node[last.self]
           item == last.elem.obj[1]
       IN /\ InProperties(n, item)
          /\ \E i \in Hits(n, item.fieldName) : ~PatternAccepts(n, i, item)
          /\ OtherwiseAccepts(n, item)

\* C4: the verdict is the same for every order of the document's fields and every order
\* of the node's patternProperties.
C4_VerdictIgnoresOrder ==
    MatchedObject =>
        LET n == node[last.self]
            doc == last.elem.obj
        IN \A f \in Perms(Len(doc)), g \in Perms(Len(n.patternProperties)) :
              _matchesObject([n EXCEPT !.patternProperties = Permute(n.patternProperties, g)],
                             Permute(doc, f))
                  = last.result

\* C4: a document rejected at its second field only, by the second of two patterns that
\* both match that field's name and disagree about it.
C4_Witness ==
    /\ last.op = "matches"
    /\ ~last.result
    /\ Len(last.elem.obj) = 2
    /\ LET n == node[last.self]
           doc == last.elem.obj
       IN /\ Len(n.patternProperties) = 2
          /\ ~FieldFails(n, doc[1])
          /\ Hits(n, doc[2].fieldName) = {1, 2}
          /\ PatternAccepts(n, 1, doc[2])
          /\ ~PatternAccepts(n, 2, doc[2])

\* C5: the clone is equivalent to the node it was made from, asked either way, and
\* gives the same verdict on every document.
C5_CloneIsFaithful ==
    last.op = "shallowClone" =>
        LET t == node[last.self]
            clone == node[last.other]
        IN /\ equivalent(t, clone) = Returns(TRUE)
           /\ equivalent(clone, t) = Returns(TRUE)
           /\ \A doc \in Docs : _matchesObject(clone, doc) = _matchesObject(t, doc)

\* C5: a node with two patterns and an expression otherwise has been cloned.
C5_Witness ==
    /\ last.op = "shallowClone"
    /\ pc[last.self] = "initialized"
    /\ node[last.self].otherwise # Null
    /\ Len(node[last.self].patternProperties) = 2
    /\ node[last.self].properties # <<>>

\* the addresses of the children a node owns
OwnedChildren(n) ==
    {n.patternProperties[i].second.addr : i \in 1..Len(n.patternProperties)}
    \cup {n.otherwise[i].addr : i \in 1..Len(n.otherwise)}

\* C6: a shallowClone call leaves every member of the node it is called on as it was,
\* and the clone it returns owns none of that node's children.
C6_CloneLeavesOriginal ==
    [][last'.op = "shallowClone" =>
          /\ node'[last'.self] = node[last'.self]
          /\ OwnedChildren(node'[last'.other]) \cap OwnedChildren(node'[last'.self]) = {}]_vars

\* C6: a node that has properties, a name placeholder and three owned children has
\* been cloned.
C6_Witness ==
    /\ last.op = "shallowClone"
    /\ pc[last.other] = "cloned"
    /\ node[last.self].properties # <<>>
    /\ node[last.self].namePlaceholder # ""
    /\ Cardinality(OwnedChildren(node[last.self])) = 3
    /\ Cardinality(OwnedChildren(node[last.other])) = 3

\* the otherwise of x and of y are of the same kind, with payloads that agree
SameOtherwise(x, y) ==
    IF x.otherwise # Null /\ y.otherwise # Null
    THEN /\ FilterEquivalent(x.otherwise[1].filter, y.otherwise[1].filter)
         /\ x.otherwise[1].placeholder = y.otherwise[1].placeholder
    ELSE /\ x.otherwise = Null
         /\ y.otherwise = Null
         /\ x.boolOtherwise = y.boolOtherwise

\* one node's otherwise is a sub-expression and the other's a boolean
OtherwiseKindsDiffer(x, y) == (x.otherwise = Null) # (y.otherwise = Null)

\* C7: equivalent returns false when one node's otherwise is a sub-expression and the
\* other's a boolean, whichever of the two it is called on.
C7_OtherwiseKindsMustMatch ==
    (last.op = "equivalent" /\ OtherwiseKindsDiffer(node[last.self], node[last.other]))
        => (~last.crashed /\ ~last.result)

\* the pairwise relation of C8: regex source text equal and sub-expression equivalent
SamePattern(e1, e2) ==
    /\ e1.first.serializedRegex = e2.first.serializedRegex
    /\ FilterEquivalent(e1.second.filter, e2.second.filter)

\* xs and ys are equal as multisets under SamePattern
SameMultiset(xs, ys) ==
    /\ Len(xs) = Len(ys)
    /\ \E f \in Perms(Len(xs)) : \A i \in 1..Len(xs) : SamePattern(xs[i], ys[f[i]])

\* C8: for two nodes with the same properties set, namePlaceholder and otherwise,
\* equivalent returns whether their patternProperties are equal as multisets, whatever
\* the order properties were inserted in and patterns were listed in.
C8_EquivalentIgnoresOrder ==
    LET x == node[last.self]
        y == node[last.other]
    IN (/\ last.op = "equivalent"
        /\ Range(x.properties) = Range(y.properties)
        /\ x.namePlaceholder = y.namePlaceholder
        /\ SameOtherwise(x, y))
       => (~last.crashed /\ last.result = SameMultiset(x.patternProperties, y.patternProperties))

\* C8: two nodes whose properties and patterns are the same in different orders have
\* been found equivalent.
C8_Witness ==
    LET x == node[last.self]
        y == node[last.other]
    IN /\ last.op = "equivalent"
       /\ last.result
       /\ x.properties # y.properties
       /\ Len(x.patternProperties) = 2
       /\ ~SamePattern(x.patternProperties[1], y.patternProperties[1])
       /\ x.otherwise # Null

\* the patterns of x and y agree position by position
SamePatternsInOrder(x, y) ==
    /\ Len(x.patternProperties) = Len(y.patternProperties)
    /\ \A i \in 1..Len(x.patternProperties) :
          SamePattern(x.patternProperties[i], y.patternProperties[i])

\* the patterns of x and y agree position by position except at one position, where
\* only the regex source text differs
OneRegexDiffers(x, y) ==
    /\ Len(x.patternProperties) = Len(y.patternProperties)
    /\ \E k \in 1..Len(x.patternProperties) :
          /\ x.patternProperties[k].first.serializedRegex
                 # y.patternProperties[k].first.serializedRegex
          /\ FilterEquivalent(x.patternProperties[k].second.filter,
                              y.patternProperties[k].second.filter)
          /\ \A i \in 1..Len(x.patternProperties) :
                i # k => SamePattern(x.patternProperties[i], y.patternProperties[i])

\* the same, where only the sub-expression differs
OnePatternExpressionDiffers(x, y) ==
    /\ Len(x.patternProperties) = Len(y.patternProperties)
    /\ \E k \in 1..Len(x.patternProperties) :
          /\ x.patternProperties[k].first.serializedRegex
                 = y.patternProperties[k].first.serializedRegex
          /\ ~FilterEquivalent(x.patternProperties[k].second.filter,
                               y.patternProperties[k].second.filter)
          /\ \A i \in 1..Len(x.patternProperties) :
                i # k => SamePattern(x.patternProperties[i], y.patternProperties[i])

\* x and y differ in exactly one component
DifferInOneComponent(x, y) ==
    \/ /\ Range(x.properties) # Range(y.properties)
       /\ x.namePlaceholder = y.namePlaceholder
       /\ SamePatternsInOrder(x, y)
       /\ SameOtherwise(x, y)
    \/ /\ Range(x.properties) = Range(y.properties)
       /\ x.namePlaceholder # y.namePlaceholder
       /\ SamePatternsInOrder(x, y)
       /\ SameOtherwise(x, y)
    \/ /\ Range(x.properties) = Range(y.properties)
       /\ x.namePlaceholder = y.namePlaceholder
       /\ (OneRegexDiffers(x, y) \/ OnePatternExpressionDiffers(x, y))
       /\ SameOtherwise(x, y)
    \/ /\ Range(x.properties) = Range(y.properties)
       /\ x.namePlaceholder = y.namePlaceholder
       /\ SamePatternsInOrder(x, y)
       /\ x.otherwise # Null
       /\ y.otherwise # Null
       /\ ~FilterEquivalent(x.otherwise[1].filter, y.otherwise[1].filter)

\* C9: two nodes that differ in exactly one of the properties set, the namePlaceholder,
\* the regex source text of one pattern, the sub-expression of one pattern, or the
\* otherwise sub-expression are not equivalent.
C9_OneDifferenceIsDetected ==
    (last.op = "equivalent" /\ DifferInOneComponent(node[last.self], node[last.other]))
        => (~last.crashed /\ ~last.result)

\* C9: two nodes with two patterns each, alike but for the regex source text of one
\* pattern, have been found not equivalent.
C9_Witness ==
    LET x == node[last.self]
        y == node[last.other]
    IN /\ last.op = "equivalent"
       /\ ~last.result
       /\ Range(x.properties) = Range(y.properties)
       /\ x.namePlaceholder = y.namePlaceholder
       /\ SameOtherwise(x, y)
       /\ Len(x.patternProperties) = 2
       /\ OneRegexDiffers(x, y)

\* C10: a.equivalent(b) completes and returns what b.equivalent(a) returns.
C10_EquivalentIsSymmetric ==
    last.op = "equivalent" =>
        /\ ~last.crashed
        /\ equivalent(node[last.other], node[last.self]) = Returns(last.result)

\* the field names of a BSON object, in order
FieldNamesOf(obj) == [i \in 1..Len(obj) |-> obj[i].fieldName]

\* entry is {regex: /<the source text of elem's regex>/, expression: <elem's filter>}
IsPatternEntry(entry, elem) ==
    /\ entry.type = "Object"
    /\ FieldNamesOf(entry.value) = <<"regex", "expression">>
    /\ entry.value[1].type = "RegEx"
    /\ entry.value[1].value.pattern = elem.first.serializedRegex
    /\ entry.value[2].type = "Object"
    /\ entry.value[2].value = FilterSerialize(elem.second.filter)

\* C11: serialize writes one field $_internalSchemaAllowedProperties, an object of
\* exactly the four fields properties, namePlaceholder, patternProperties, otherwise in
\* that order; patternProperties lists the stored patterns in stored order, each as
\* {regex: <source text>, expression: <serialized filter>}; otherwise is the serialized
\* filter when the node holds an otherwise expression and the boolean when it does not.
C11_SerializedForm ==
    last.op = "serialize" =>
        LET n == node[last.self]
            body == out[1].value
        IN /\ FieldNamesOf(out) = <<"$_internalSchemaAllowedProperties">>
           /\ out[1].type = "Object"
           /\ FieldNamesOf(body) =
                  <<"properties", "namePlaceholder", "patternProperties", "otherwise">>
           /\ body[1].type = "Array"
           /\ Len(body[1].value) = Len(n.properties)
           /\ {body[1].value[i].value : i \in 1..Len(body[1].value)} = Range(n.properties)
           /\ body[2].type = "String"
           /\ body[2].value = n.namePlaceholder
           /\ body[3].type = "Array"
           /\ Len(body[3].value) = Len(n.patternProperties)
           /\ \A i \in 1..Len(n.patternProperties) :
                 IsPatternEntry(body[3].value[i], n.patternProperties[i])
           /\ IF n.otherwise # Null
              THEN /\ body[4].type = "Object"
                   /\ body[4].value = FilterSerialize(n.otherwise[1].filter)
              ELSE /\ body[4].type = "Bool"
                   /\ body[4].value = n.boolOtherwise

\* C11: a node with properties, two patterns whose regexes differ and an otherwise
\* expression has been serialized.
C11_Witness ==
    /\ last.op = "serialize"
    /\ node[last.self].properties # <<>>
    /\ Len(node[last.self].patternProperties) = 2
    /\ node[last.self].patternProperties[1].first.serializedRegex
           # node[last.self].patternProperties[2].first.serializedRegex
    /\ node[last.self].otherwise # Null
    /\ out # EmptyBuilder

\* C13: in every node reached by init calls (each passing its invariant checks) and
\* shallowClone calls, namePlaceholder is non-empty whenever patternProperties is
\* non-empty or otherwise is a sub-expression.
C13_PlaceholderIsNamed ==
    \A s \in Slots :
        (Len(node[s].patternProperties) > 0 \/ node[s].otherwise # Null)
            => node[s].namePlaceholder # ""

\* the client holds the result of compiling the serialized form of a compiled tree
Recompiled == input.serializedFrom # <<>>

HasUnknownKey(schema) ==
    \E i \in 1..Len(schema) : schema[i].fieldName \notin kSchemaKeywords

\* the elements of a properties object or a logical array that are objects
ObjectsOf(elements) == {elements[i] : i \in {j \in 1..Len(elements) : elements[j].type = "Object"}}

\* the sub-schemas a keyword element holds, each with the path it is compiled with
NestedIn(elt) ==
    IF \/ elt.fieldName = "properties" /\ elt.type = "Object"
       \/ elt.fieldName \in {"allOf", "anyOf", "oneOf"} /\ elt.type = "Array"
    THEN {[path |-> e.fieldName, schema |-> e.value] : e \in ObjectsOf(elt.value)}
    ELSE IF elt.fieldName = "not" /\ elt.type = "Object"
    THEN {[path |-> "not", schema |-> elt.value]}
    ELSE {}

\* the sub-schemas nested in schema, at any depth
RECURSIVE NestedSchemas(_)
NestedSchemas(schema) ==
    LET direct == UNION {NestedIn(schema[i]) : i \in 1..Len(schema)}
    IN direct \cup UNION {NestedSchemas(d.schema) : d \in direct}

\* schema without its keys that are no keywords, at any depth
RECURSIVE WithoutUnknownKeys(_)
WithoutUnknownKeys(schema) ==
    LET known == SelectSeq(schema, LAMBDA e : e.fieldName \in kSchemaKeywords)
        Stripped(e) == IF e.type = "Object"
                       THEN BSONElement(e.fieldName, e.type, WithoutUnknownKeys(e.value))
                       ELSE e
        StrippedList(elements) == [j \in 1..Len(elements) |-> Stripped(elements[j])]
    IN [i \in 1..Len(known) |->
           IF NestedIn(known[i]) = {}
           THEN known[i]
           ELSE IF known[i].fieldName = "not"
           THEN Stripped(known[i])
           ELSE BSONElement(known[i].fieldName, known[i].type, StrippedList(known[i].value))]

\* the client holds what compiling a schema of its own returned
Compiled == result # NotCompiled /\ ~Recompiled

\* C14: a schema with a key outside the thirteen keywords fails to compile with
\* FailedToParse, whatever else it holds and wherever the key is; so does every nested
\* sub-schema with such a key when it is compiled with its path, and with it the schema
\* around it: always with an error, and with FailedToParse when nothing but the unknown
\* keys keeps the schema from compiling.
C14_UnknownKeywordFailsToParse ==
    Compiled =>
        /\ HasUnknownKey(input.schema) => result.code = "FailedToParse"
        /\ \A nested \in NestedSchemas(input.schema) :
              HasUnknownKey(nested.schema) =>
                  /\ _parse(nested.path, nested.schema).code = "FailedToParse"
                  /\ result.code # "OK"
                  /\ parse(WithoutUnknownKeys(input.schema)).code = "OK"
                         => result.code = "FailedToParse"

\* C14: a schema has been compiled whose only unknown key is in a sub-schema nested in
\* allOf, anyOf or oneOf, next to a keyword of that sub-schema, and nothing else keeps
\* it from compiling.
C14_Witness ==
    /\ Compiled
    /\ result.code = "FailedToParse"
    /\ ~HasUnknownKey(input.schema)
    /\ parse(WithoutUnknownKeys(input.schema)).code = "OK"
    /\ \E nested \in NestedSchemas(input.schema) :
          /\ nested.path = "0"
          /\ Len(nested.schema) = 2
          /\ nested.schema[1].fieldName \in kSchemaKeywords
          /\ HasUnknownKey(nested.schema)

HasKey(schema, fieldName) == \E i \in 1..Len(schema) : schema[i].fieldName = fieldName

HasDuplicateKey(schema) ==
    \E i, j \in 1..Len(schema) : i # j /\ schema[i].fieldName = schema[j].fieldName

LoneExclusiveMaximum(schema) ==
    HasKey(schema, "exclusiveMaximum") /\ ~HasKey(schema, "maximum")

LoneExclusiveMinimum(schema) ==
    HasKey(schema, "exclusiveMinimum") /\ ~HasKey(schema, "minimum")

\* the keywords _parse handles before it looks for the base keyword of a lone companion
HandledBeforeCompanion(schema) ==
    IF LoneExclusiveMaximum(schema)
    THEN SelectSeq(schema, LAMBDA e : e.fieldName \in {"type", "properties"})
    ELSE SelectSeq(schema, LAMBDA e : e.fieldName \in
                       {"type", "properties", "maximum", "exclusiveMaximum"})

\* C15 as claimed: a schema with exclusiveMaximum and no maximum, or exclusiveMinimum and
\* no minimum, fails to compile with FailedToParse whatever its other keywords and values.
C15_LoneCompanionFailsToParse ==
    Compiled /\ (LoneExclusiveMaximum(input.schema) \/ LoneExclusiveMinimum(input.schema))
        => result.code = "FailedToParse"

\* C15 as amended: such a schema always fails to compile; with FailedToParse when the
\* keywords handled before the companion check (type and properties, and for
\* exclusiveMinimum also maximum with exclusiveMaximum) are valid, and otherwise with
\* the error of the first of those keywords that fails, or FailedToParse for a key that
\* is unknown or duplicated.
C15_LoneCompanionFails ==
    Compiled /\ (LoneExclusiveMaximum(input.schema) \/ LoneExclusiveMinimum(input.schema))
        => LET before == parse(HandledBeforeCompanion(input.schema))
           IN /\ result.code # "OK"
              /\ before.code = "OK" => result.code = "FailedToParse"
              /\ result.code \in {"FailedToParse", before.code}
              /\ /\ ~HasUnknownKey(input.schema)
                 /\ ~HasDuplicateKey(input.schema)
                 /\ before.code \in {"TypeMismatch", "BadValue"}
                 => result.code = before.code

\* C15: a schema with a valid type and exclusiveMinimum without minimum has been
\* compiled and failed for the missing minimum.
C15_Witness ==
    /\ Compiled
    /\ LoneExclusiveMinimum(input.schema)
    /\ HasKey(input.schema, "type")
    /\ result.code = "FailedToParse"
    /\ result.reason = "minimum"

\* the elements of schema other than its type keyword
WithoutType(schema) == SelectSeq(schema, LAMBDA e : e.fieldName # "type")

\* schema has one type keyword, and it names a type other than object
NamesNonObjectType(schema) ==
    /\ Len(schema) - Len(WithoutType(schema)) = 1
    /\ GetField(schema, "type")[1].type = "String"
    /\ GetField(schema, "type")[1].value \in DOMAIN TypeAliases \ {"object"}

\* C16: a top-level schema whose type names something other than object ("number"
\* included) and whose other keywords are all valid compiles, to AlwaysFalse alone: none
\* of the other keywords' subtrees is in the tree, and it rejects every document.
C16_TopLevelNonObjectIsAlwaysFalse ==
    Compiled /\ NamesNonObjectType(input.schema)
             /\ parse(WithoutType(input.schema)).code = "OK"
        => /\ result.code = "OK"
           /\ result.tree = <<AlwaysFalseMatchExpression>>
           /\ \A doc \in MatchDocs : ~matchesBSON(result.tree[1], doc)

\* C16: a top-level schema of type number with another keyword that alone compiles to a
\* conjunction with a child has been compiled.
C16_Witness ==
    /\ Compiled
    /\ NamesNonObjectType(input.schema)
    /\ GetField(input.schema, "type")[1].value = "number"
    /\ parse(WithoutType(input.schema)).code = "OK"
    /\ parse(WithoutType(input.schema)).tree[1].children # <<>>
    /\ result.tree = <<AlwaysFalseMatchExpression>>

\* schema is {properties: {<name>: <a sub-schema>}}
IsPropertySchema(schema, name) ==
    /\ Len(schema) = 1
    /\ schema[1].fieldName = "properties"
    /\ schema[1].type = "Object"
    /\ Len(schema[1].value) = 1
    /\ schema[1].value[1].fieldName = name
    /\ schema[1].value[1].type = "Object"

\* the sub-schema of the one property of such a schema
PropertySubSchema(schema) == schema[1].value[1].value

\* sub fixes type "string" and specifies maximum, and nothing else but exclusiveMaximum
IsStringWithMaximum(sub) ==
    /\ HasKey(sub, "maximum")
    /\ \E i \in 1..Len(sub) : sub[i] = BSONElement("type", "String", "string")
    /\ \A i \in 1..Len(sub) : sub[i].fieldName \in {"type", "maximum", "exclusiveMaximum"}

\* the client holds the tree compiled from {properties: {a: <string with maximum>}}
CompiledStringWithMaximum ==
    /\ Compiled
    /\ result.code = "OK"
    /\ IsPropertySchema(input.schema, "a")
    /\ IsStringWithMaximum(PropertySubSchema(input.schema))

\* C17 as claimed: when the sub-schema of a property fixes type "string" and specifies
\* maximum, the compiled tree returns true for every document in which the property is a
\* string and for every document in which it is not a string.
C17_VacuousMaximumAcceptsAll ==
    CompiledStringWithMaximum
        => \A doc \in MatchDocs :
               GetField(doc, "a") # <<>> => matchesBSON(result.tree[1], doc)

\* C17 as amended: for such a sub-schema maximum contributes AlwaysTrue, and the
\* compiled tree returns true exactly for the documents in which the property is a
\* string or absent: the type keyword rejects every other value.
C17_VacuousMaximumLeavesType ==
    CompiledStringWithMaximum
        => /\ result.tree[1].children[1].children[1].children[1] = AlwaysTrueMatchExpression
           /\ \A doc \in MatchDocs :
                  matchesBSON(result.tree[1], doc)
                      <=> (\/ GetField(doc, "a") = <<>>
                           \/ GetField(doc, "a")[1].type = "String")

\* C17: {properties: {a: {type: "string", maximum: 5}}} has been compiled.
C17_Witness ==
    /\ CompiledStringWithMaximum
    /\ PropertySubSchema(input.schema) = <<BSONElement("type", "String", "string"),
                                           BSONElement("maximum", "NumberInt", 5)>>

\* the keywords that add a child to the conjunction, in the order _parse handles them
DispatchOrder ==
    <<"properties", "maximum", "minimum", "maxLength", "minLength", "pattern",
      "allOf", "anyOf", "oneOf", "not">>

\* where the child of keyword DispatchOrder[k] is among the children of the conjunction
\* compiled from schema
ChildIndex(schema, k) == Cardinality({j \in 1..k : HasKey(schema, DispatchOrder[j])})

\* the type a keyword restricts, and the kind of node that enforces it
RestrictionTypeOf(keyword) ==
    IF keyword \in {"maximum", "minimum"} THEN Type(TRUE, "EOO")
    ELSE IF keyword \in {"maxLength", "minLength", "pattern"} THEN Type(FALSE, "String")
    ELSE Type(FALSE, "Object")

RestrictionKindOf(keyword) ==
    IF keyword \in {"maximum", "minimum"} THEN "Comparison"
    ELSE IF keyword \in {"maxLength", "minLength"} THEN "StrLength"
    ELSE IF keyword = "pattern" THEN "Regex"
    ELSE "ObjectMatch"

\* the stated type alias is incompatible with the type keyword restricts: not both
\* numeric, and not the same type
Incompatible(keyword, alias) ==
    IF keyword \in {"maximum", "minimum"} THEN alias \notin {"number", "int"}
    ELSE IF keyword \in {"maxLength", "minLength", "pattern"} THEN alias # "string"
    ELSE alias # "object"

\* the client holds the tree compiled from {properties: {a: <a sub-schema>}}
CompiledProperty == Compiled /\ result.code = "OK" /\ IsPropertySchema(input.schema, "a")

\* the conjunction compiled from that sub-schema
PropertyTree == result.tree[1].children[1].children[1]

\* C18: for every restricting keyword of a sub-schema, makeRestriction returned
\* AlwaysTrue exactly when the sub-schema states a type that is incompatible with the
\* type the keyword restricts, and otherwise Or(Not(Type(p, restrictionType)),
\* restrictionExpr) with p the path of restrictionExpr, which accepts a document iff its
\* field p is not of restrictionType or restrictionExpr accepts it.
C18_RestrictionShape ==
    CompiledProperty =>
        LET sub == PropertySubSchema(input.schema)
        IN \A k \in 1..Len(DispatchOrder) :
              HasKey(sub, DispatchOrder[k]) =>
                  LET keyword == DispatchOrder[k]
                      child == PropertyTree.children[ChildIndex(sub, k)]
                      vacuous == /\ HasKey(sub, "type")
                                 /\ Incompatible(keyword, GetField(sub, "type")[1].value)
                  IN /\ child = AlwaysTrueMatchExpression <=> vacuous
                     /\ ~vacuous =>
                           /\ child.kind = "Or"
                           /\ Len(child.children) = 2
                           /\ child.children[2].kind = RestrictionKindOf(keyword)
                           /\ child.children[2].path = "a"
                           /\ child.children[1] =
                                  NotMatchExpression(
                                      TypeMatchNode(child.children[2].path,
                                                    RestrictionTypeOf(keyword)))
                           /\ \A doc \in MatchDocs :
                                 matchesBSON(child, doc)
                                     <=> (\/ GetField(doc, "a") = <<>>
                                          \/ ~TypeMatches(RestrictionTypeOf(keyword),
                                                          GetField(doc, "a")[1])
                                          \/ matchesBSON(child.children[2], doc))

\* C18: a sub-schema of type int with a maximum, which are both numeric, has been
\* compiled.
C18_Witness ==
    /\ CompiledProperty
    /\ PropertySubSchema(input.schema) = <<BSONElement("type", "String", "int"),
                                           BSONElement("maximum", "NumberInt", 5)>>
    /\ PropertyTree.children[1].kind = "Or"

\* the nodes of a tree
RECURSIVE NodesOf(_)
NodesOf(expr) ==
    {expr} \cup UNION {NodesOf(expr.children[i]) : i \in 1..Len(expr.children)}

\* what each of maximum, minimum, maxLength, minLength and pattern of schema returns
\* when it is parsed with an empty path and the stated type typeExpr
ParsedAtEmptyPath(schema, typeExpr) ==
    (IF HasKey(schema, "maximum")
     THEN <<parseMaximum("", GetField(schema, "maximum")[1], typeExpr, FALSE),
            parseMaximum("", GetField(schema, "maximum")[1], typeExpr, TRUE)>>
     ELSE <<>>)
    \o (IF HasKey(schema, "minimum")
        THEN <<parseMinimum("", GetField(schema, "minimum")[1], typeExpr, FALSE),
               parseMinimum("", GetField(schema, "minimum")[1], typeExpr, TRUE)>>
        ELSE <<>>)
    \o (IF HasKey(schema, "maxLength")
        THEN <<parseStrLength("", GetField(schema, "maxLength")[1], typeExpr, "maxLength")>>
        ELSE <<>>)
    \o (IF HasKey(schema, "minLength")
        THEN <<parseStrLength("", GetField(schema, "minLength")[1], typeExpr, "minLength")>>
        ELSE <<>>)
    \o (IF HasKey(schema, "pattern")
        THEN <<parsePattern("", GetField(schema, "pattern")[1], typeExpr)>>
        ELSE <<>>)

\* the stated types a schema can have: none, or that of an alias
StatedTypes == {<<>>} \cup {parseTypeFromAlias("", alias).tree : alias \in DOMAIN TypeAliases}

\* C19: in a schema parsed with an empty path, each of maximum, minimum, maxLength,
\* minLength and pattern whose element is valid contributes exactly AlwaysTrue to the
\* conjunction, whatever its value and the stated type, and no tree the compiler returns
\* holds a Comparison, StrLength, Regex or Type node with an empty path.
C19_EmptyPathIsAlwaysTrue ==
    Compiled =>
        /\ result.code = "OK" /\ result.tree[1].kind = "And" =>
              \A k \in 2..6 :
                  HasKey(input.schema, DispatchOrder[k]) =>
                      result.tree[1].children[ChildIndex(input.schema, k)]
                          = AlwaysTrueMatchExpression
        /\ \A typeExpr \in StatedTypes :
              LET parsed == ParsedAtEmptyPath(input.schema, typeExpr)
              IN \A i \in 1..Len(parsed) :
                    parsed[i].code = "OK" => parsed[i].tree = <<AlwaysTrueMatchExpression>>
        /\ result.code = "OK" =>
              \A expr \in NodesOf(result.tree[1]) :
                  expr.kind \in {"Comparison", "StrLength", "Regex", "Type"} => expr.path # ""

\* C19: a top-level schema of type object with a maximum has been compiled.
C19_Witness ==
    /\ Compiled
    /\ result.code = "OK"
    /\ Len(input.schema) = 2
    /\ GetField(input.schema, "type") = <<BSONElement("type", "String", "object")>>
    /\ HasKey(input.schema, "maximum")
    /\ result.tree[1] = AndMatchExpression(<<AlwaysTrueMatchExpression>>)

\* how many keywords of schema add a child of their own to the conjunction
KeywordChildren(schema) == ChildIndex(schema, Len(DispatchOrder))

\* Or(Not(Exists(p)), Type(p, <the type alias names>))
TypeRestrictionOf(p, alias) ==
    OrMatchExpression(<<NotMatchExpression(ExistsMatchExpression(p)),
                        TypeMatchNode(p, TypeAliases[alias])>>)

\* tree is what a sub-schema compiled with the non-empty path p has to be, as far as its
\* type keyword goes
TypeRestrictionIsLast(p, sub, tree) ==
    IF HasKey(sub, "type")
    THEN LET alias == GetField(sub, "type")[1].value
         IN /\ Len(tree.children) = KeywordChildren(sub) + 1
            /\ tree.children[Len(tree.children)] = TypeRestrictionOf(p, alias)
            /\ \A doc \in MatchDocs :
                  matchesBSON(tree, doc) =>
                      \/ GetField(doc, p) = <<>>
                      \/ TypeMatches(TypeAliases[alias], GetField(doc, p)[1])
    ELSE /\ Len(tree.children) = KeywordChildren(sub)
         /\ \A i \in 1..Len(tree.children) :
               \A alias \in DOMAIN TypeAliases :
                   tree.children[i] # TypeRestrictionOf(p, alias)

\* C20: the conjunction returned for a sub-schema parsed with a non-empty path p that
\* has a type keyword has Or(Not(Exists(p)), Type(p, statedType)) as its last child, so
\* it accepts a document only if field p is absent or of the stated type; without a type
\* keyword the conjunction has no such child.
C20_NestedTypeRestrictionIsLast ==
    Compiled =>
        /\ result.code = "OK" /\ IsPropertySchema(input.schema, "a") =>
              /\ PropertyTree.kind = "And"
              /\ TypeRestrictionIsLast("a", PropertySubSchema(input.schema), PropertyTree)
        /\ \A nested \in NestedSchemas(input.schema) :
              nested.path # "" /\ _parse(nested.path, nested.schema).code = "OK" =>
                  /\ _parse(nested.path, nested.schema).tree[1].kind = "And"
                  /\ TypeRestrictionIsLast(nested.path, nested.schema,
                                           _parse(nested.path, nested.schema).tree[1])

\* C20: a sub-schema whose type keyword comes after another keyword has been compiled
\* for property a.
C20_Witness ==
    /\ CompiledProperty
    /\ Len(PropertySubSchema(input.schema)) = 2
    /\ PropertySubSchema(input.schema)[1].fieldName = "maxLength"
    /\ PropertySubSchema(input.schema)[2] = BSONElement("type", "String", "string")
    /\ Len(PropertyTree.children) = 2
    /\ PropertyTree.children[2] = TypeRestrictionOf("a", "string")

\* the schema the client compiled and the sub-schemas nested in it, each with the path
\* it is compiled with
CompiledSchemas == {[path |-> "", schema |-> input.schema]} \cup NestedSchemas(input.schema)

\* the companion of maximum or minimum
CompanionOf(keyword) ==
    IF keyword = "maximum" THEN "exclusiveMaximum" ELSE "exclusiveMinimum"

\* schema has the companion of keyword, and it is the boolean true
CompanionIsTrue(schema, keyword) ==
    /\ HasKey(schema, CompanionOf(keyword))
    /\ GetField(schema, CompanionOf(keyword))[1].type = "Bool"
    /\ GetField(schema, CompanionOf(keyword))[1].value

\* the comparison maximum or minimum of schema has to emit at path p
ExpectedComparison(p, schema, keyword) ==
    ComparisonMatchExpression(
        IF keyword = "maximum"
        THEN IF CompanionIsTrue(schema, keyword) THEN "LT" ELSE "LTE"
        ELSE IF CompanionIsTrue(schema, keyword) THEN "GT" ELSE "GTE",
        p, NumberInHalves(GetField(schema, keyword)[1]))

\* the keywords of schema that _parse handles before it looks at the companion of keyword
HandledBefore(schema, keyword) ==
    IF keyword = "maximum"
    THEN SelectSeq(schema, LAMBDA e : e.fieldName \in {"type", "properties"})
    ELSE SelectSeq(schema, LAMBDA e : e.fieldName \in
                       {"type", "properties", "maximum", "exclusiveMaximum"})

\* the numbers around the bounds the schemas state
BoundaryNumbers == 2..7

\* C21: where maximum is present and a comparison is emitted for it, the comparison is
\* < when exclusiveMaximum is present and true and <= when exclusiveMaximum is absent or
\* false, so the bound itself is accepted only in the second case; likewise minimum
\* emits > or >= by exclusiveMinimum. Where the base keyword is present and its
\* companion is not a boolean, the schema fails with TypeMismatch, provided the keywords
\* handled before it are valid and no key is unknown or duplicated.
C21_CompanionDecidesStrictness ==
    Compiled =>
        \A s \in CompiledSchemas : \A keyword \in {"maximum", "minimum"} :
            LET r == _parse(s.path, s.schema)
                k == IF keyword = "maximum" THEN 2 ELSE 3
                bound == GetField(s.schema, keyword)[1].value
            IN HasKey(s.schema, keyword) =>
                  /\ r.code = "OK" /\ r.tree[1].kind = "And" =>
                        LET child == r.tree[1].children[ChildIndex(s.schema, k)]
                        IN child.kind = "Or" =>
                              /\ child.children[2] = ExpectedComparison(s.path, s.schema, keyword)
                              /\ child.children[2].op \in {"LT", "GT"}
                                     <=> CompanionIsTrue(s.schema, keyword)
                              /\ \A v \in BoundaryNumbers :
                                    matchesBSON(child, <<BSONElement(s.path, "NumberInt", v)>>)
                                        <=> IF keyword = "maximum"
                                            THEN v < bound \/ (v = bound /\ ~CompanionIsTrue(s.schema, keyword))
                                            ELSE v > bound \/ (v = bound /\ ~CompanionIsTrue(s.schema, keyword))
                  /\ /\ HasKey(s.schema, CompanionOf(keyword))
                     /\ GetField(s.schema, CompanionOf(keyword))[1].type # "Bool"
                     /\ ~HasUnknownKey(s.schema)
                     /\ ~HasDuplicateKey(s.schema)
                     /\ _parse(s.path, HandledBefore(s.schema, keyword)).code = "OK"
                     => /\ r.code = "TypeMismatch"
                        /\ r.reason = CompanionOf(keyword)

\* C21: the sub-schema {minimum: 3, exclusiveMinimum: true} of property a has been
\* compiled to a comparison that rejects 3 and accepts 4.
C21_Witness ==
    /\ CompiledProperty
    /\ PropertySubSchema(input.schema) = <<BSONElement("minimum", "NumberInt", 3),
                                           BSONElement("exclusiveMinimum", "Bool", TRUE)>>
    /\ PropertyTree.children[1].children[2] = ComparisonMatchExpression("GT", "a", 6)
    /\ ~matchesBSON(result.tree[1], <<BSONElement("a", "NumberInt", 3)>>)
    /\ matchesBSON(result.tree[1], <<BSONElement("a", "NumberInt", 4)>>)

\* the kind of node allOf, anyOf and oneOf combine their nested schemas under
CombinatorKindOf(keyword) ==
    CASE keyword = "allOf" -> "And"
      [] keyword = "anyOf" -> "Or"
      [] keyword = "oneOf" -> "Xor"

\* the trees of the elements of a logical array, each compiled with the name of its
\* index as path
CompiledElements(array) ==
    [i \in 1..Len(array) |-> _parse(ToString(i - 1), array[i].value).tree[1]]

\* how many of trees accept doc
Accepting(trees, doc) == Cardinality({i \in 1..Len(trees) : matchesBSON(trees[i], doc)})

\* C22: in every schema that compiles to a conjunction, each of allOf, anyOf and oneOf
\* contributes And, Or and Xor respectively over one child per array element, in array
\* order, the child being the element compiled with path "0", "1", ...: the combinator
\* itself when the schema's path is empty, which accepts a document iff all, at least one
\* or exactly one of the element trees accept it, and
\* makeRestriction(Object, ObjectMatch(p, combinator), statedType) when the path p is not
\* empty.
C22_LogicalKeywordsCombine ==
    Compiled =>
        \A s \in CompiledSchemas : \A k \in 7..9 :
            LET r == _parse(s.path, s.schema)
                keyword == DispatchOrder[k]
                array == GetField(s.schema, keyword)[1].value
                trees == CompiledElements(array)
                combinator == MatchNode(CombinatorKindOf(keyword), "", trees, NoType, "", 0, <<>>)
                child == r.tree[1].children[ChildIndex(s.schema, k)]
                statedType == parseType(s.path, GetField(s.schema, "type")).tree
            IN HasKey(s.schema, keyword) /\ r.code = "OK" /\ r.tree[1].kind = "And" =>
                  /\ Len(trees) = Len(array)
                  /\ Len(trees) > 0
                  /\ IF s.path = ""
                     THEN /\ child = combinator
                          /\ \A doc \in MatchDocs :
                                matchesBSON(child, doc)
                                    <=> CASE keyword = "allOf" ->
                                                 Accepting(trees, doc) = Len(trees)
                                          [] keyword = "anyOf" -> Accepting(trees, doc) >= 1
                                          [] keyword = "oneOf" -> Accepting(trees, doc) = 1
                     ELSE /\ child = makeRestriction(
                                         Type(FALSE, "Object"),
                                         InternalSchemaObjectMatchExpression(combinator, s.path),
                                         statedType)
                          /\ child # AlwaysTrueMatchExpression =>
                                /\ child.children[2].kind = "ObjectMatch"
                                /\ child.children[2].path = s.path
                                /\ child.children[2].children = <<combinator>>

\* C22: a top-level oneOf over two different sub-schemas has been compiled to an Xor of
\* their trees, the first with path "0" and the second with path "1".
C22_Witness ==
    /\ Compiled
    /\ result.code = "OK"
    /\ Len(input.schema) = 1
    /\ input.schema[1].fieldName = "oneOf"
    /\ Len(input.schema[1].value) = 2
    /\ input.schema[1].value[1].value = <<BSONElement("maximum", "NumberInt", 5)>>
    /\ input.schema[1].value[2].value = <<BSONElement("type", "String", "string"),
                                          BSONElement("maxLength", "NumberInt", 1)>>
    /\ result.tree[1].children[1].kind = "Xor"
    /\ result.tree[1].children[1].children[1].children[1].children[2]
           = ComparisonMatchExpression("LTE", "0", 10)
    /\ result.tree[1].children[1].children[2].children[2]
           = TypeRestrictionOf("1", "string")

\* the kind of node a keyword with nested schemas builds over them
NestingKindOf(keyword) ==
    CASE keyword = "properties" -> "And"
      [] keyword = "not" -> "Not"
      [] OTHER -> CombinatorKindOf(keyword)

\* the places of properties, allOf, anyOf, oneOf and not in DispatchOrder
NestingKeywords == {1, 7, 8, 9, 10}

\* C23: every ObjectMatch node of every tree the compiler returns has a non-empty path;
\* and in every schema that compiles to a conjunction, each of properties, allOf, anyOf,
\* oneOf and not contributes its And, Or, Xor or Not itself when the schema's path is
\* empty, and when the path p is not empty either AlwaysTrue or
\* Or(Not(Type(p, Object)), ObjectMatch(p, <that node>)).
C23_ObjectMatchHasPath ==
    Compiled =>
        /\ result.code = "OK" =>
              \A expr \in NodesOf(result.tree[1]) : expr.kind = "ObjectMatch" => expr.path # ""
        /\ \A s \in CompiledSchemas : \A k \in NestingKeywords :
              LET r == _parse(s.path, s.schema)
                  child == r.tree[1].children[ChildIndex(s.schema, k)]
              IN HasKey(s.schema, DispatchOrder[k]) /\ r.code = "OK" /\ r.tree[1].kind = "And" =>
                    IF s.path = ""
                    THEN child.kind = NestingKindOf(DispatchOrder[k])
                    ELSE \/ child = AlwaysTrueMatchExpression
                         \/ /\ child.kind = "Or"
                            /\ child.children[2].kind = "ObjectMatch"
                            /\ child.children[2].path = s.path
                            /\ child.children[2].children[1].kind = NestingKindOf(DispatchOrder[k])

\* C23: {properties: {"": {not: {maximum: 5}}}} has been compiled: the sub-schema of the
\* property with the empty name has the path "", and its not is not wrapped.
C23_Witness ==
    /\ Compiled
    /\ result.code = "OK"
    /\ IsPropertySchema(input.schema, "")
    /\ PropertySubSchema(input.schema)
           = <<BSONElement("not", "Object", <<BSONElement("maximum", "NumberInt", 5)>>)>>
    /\ PropertyTree.children[1].kind = "Not"

\* the keywords in the order _parse handles them, a companion with its base keyword
DispatchUnits ==
    <<{"type"}, {"properties"}, {"maximum", "exclusiveMaximum"},
      {"minimum", "exclusiveMinimum"}, {"maxLength"}, {"minLength"}, {"pattern"},
      {"allOf"}, {"anyOf"}, {"oneOf"}, {"not"}>>

\* what the keywords of one unit of schema compile to on their own at path p
CompiledAlone(p, schema, u) ==
    _parse(p, SelectSeq(schema, LAMBDA e : e.fieldName \in DispatchUnits[u]))

\* the units of schema that fail on their own
FailingUnits(p, schema) ==
    {u \in 1..Len(DispatchUnits) : CompiledAlone(p, schema, u).code # "OK"}

\* C24: a schema whose keys are all keywords, none twice, compiles iff each of its
\* keywords is valid on its own; when some are not, what is returned is the error of the
\* first invalid one in the order type, properties, maximum with exclusiveMaximum,
\* minimum with exclusiveMinimum, maxLength, minLength, pattern, allOf, anyOf, oneOf,
\* not, with no tree, and it is the same for every order of the keys in the schema. This
\* holds of the schema the client compiles, whose result the client gets as it is, and of
\* every nested sub-schema.
C24_FirstFailingKeywordWins ==
    Compiled =>
        /\ result = parse(input.schema)
        /\ \A s \in CompiledSchemas :
              ~HasUnknownKey(s.schema) /\ ~HasDuplicateKey(s.schema) =>
                  LET r == _parse(s.path, s.schema)
                      failing == FailingUnits(s.path, s.schema)
                      first == CHOOSE u \in failing : \A v \in failing : u <= v
                  IN /\ failing = {} <=> r.code = "OK"
                     /\ failing # {} =>
                           /\ r = CompiledAlone(s.path, s.schema, first)
                           /\ r.tree = <<>>
                           /\ \A f \in Perms(Len(s.schema)) :
                                 _parse(s.path, Permute(s.schema, f)) = r

\* C24: a schema with an invalid pattern followed by an invalid maxLength has been
\* compiled, and the error is that of maxLength.
C24_Witness ==
    /\ Compiled
    /\ input.schema = <<BSONElement("pattern", "NumberInt", 5),
                        BSONElement("maxLength", "NumberInt", -1)>>
    /\ FailingUnits("", input.schema) = {5, 7}
    /\ result.code = "BadValue"
    /\ result = parseStrLength("", input.schema[2], <<>>, "maxLength")

\* the BSON types the element of a keyword may have
TaggedTypesOf(keyword) ==
    CASE keyword \in {"type", "pattern"} -> {"String"}
      [] keyword \in {"properties", "not"} -> {"Object"}
      [] keyword \in {"maximum", "minimum", "maxLength", "minLength"} ->
             {"NumberInt", "NumberLong", "NumberDouble", "NumberDecimal"}
      [] keyword \in {"allOf", "anyOf", "oneOf"} -> {"Array"}

\* the keywords whose element has one tagged type, or a numeric one
TaggedKeywords == kSchemaKeywords \ {"exclusiveMaximum", "exclusiveMinimum"}

\* elt is the element of a keyword and has the wrong tagged type for it
HasWrongTag(elt) ==
    /\ elt.fieldName \in TaggedKeywords
    /\ elt.type \notin TaggedTypesOf(elt.fieldName)

\* C25: a keyword whose element has the wrong tagged type for it fails with
\* TypeMismatch: a type that is no string, properties that is no object, maximum,
\* minimum, maxLength or minLength that is no number, a pattern that is no string, allOf,
\* anyOf or oneOf that is no array, and not that is no object; in the schema the client
\* compiles and in every nested sub-schema.
C25_WrongTagIsTypeMismatch ==
    Compiled =>
        \A s \in CompiledSchemas : \A i \in 1..Len(s.schema) :
            HasWrongTag(s.schema[i]) =>
                _parse(s.path, <<s.schema[i]>>).code = "TypeMismatch"

\* elt is the element of maximum, minimum or pattern and has the wrong tagged type, or of
\* maxLength or minLength and is no number
IsMistagged(elt) ==
    /\ elt.fieldName \in {"maximum", "minimum", "maxLength", "minLength", "pattern"}
    /\ HasWrongTag(elt)

\* elt is the element of maxLength or minLength and is a number that is negative or has
\* a fraction (a NumberDouble value is given in halves)
IsBadLength(elt) ==
    /\ elt.fieldName \in {"maxLength", "minLength"}
    /\ isNumber(elt)
    /\ \/ elt.value < 0
       \/ elt.type = "NumberDouble" /\ elt.value % 2 # 0

\* what the parser of elt's keyword returns for it at path p with the stated type
\* typeExpr
ParsedAlone(p, elt, typeExpr) ==
    CASE elt.fieldName = "maximum" -> parseMaximum(p, elt, typeExpr, FALSE)
      [] elt.fieldName = "minimum" -> parseMinimum(p, elt, typeExpr, FALSE)
      [] elt.fieldName \in {"maxLength", "minLength"} ->
             parseStrLength(p, elt, typeExpr, elt.fieldName)
      [] elt.fieldName = "pattern" -> parsePattern(p, elt, typeExpr)

\* C26: in a schema compiled with the empty path, a maximum or minimum that is no
\* number, a maxLength or minLength that is no number, negative or fractional, and a
\* pattern that is no string each make the keyword's parser return an error for every
\* stated type (TypeMismatch for the tag, BadValue for the length) and never AlwaysTrue,
\* and the schema does not compile.
C26_ValidationBeforeShortCircuit ==
    Compiled =>
        \A s \in CompiledSchemas : \A i \in 1..Len(s.schema) :
            LET elt == s.schema[i]
            IN s.path = "" /\ (IsMistagged(elt) \/ IsBadLength(elt)) =>
                  /\ _parse(s.path, s.schema).code # "OK"
                  /\ result.code # "OK"
                  /\ \A typeExpr \in StatedTypes :
                        /\ ParsedAlone("", elt, typeExpr).tree = <<>>
                        /\ ParsedAlone("", elt, typeExpr).code
                               = IF IsMistagged(elt) THEN "TypeMismatch" ELSE "BadValue"
                  /\ _parse("", <<elt>>) = ParsedAlone("", elt, <<>>)

\* C26: the top-level schema {type: "object", minLength: -1} has been compiled and
\* failed with BadValue.
C26_Witness ==
    /\ Compiled
    /\ input.schema = <<BSONElement("type", "String", "object"),
                        BSONElement("minLength", "NumberInt", -1)>>
    /\ result.code = "BadValue"
    /\ result.tree = <<>>

\* C27: whenever a.equivalent(b) has returned true, a and b return the same verdict on
\* every document.
C27_EquivalentIsSound ==
    (last.op = "equivalent" /\ ~last.crashed /\ last.result)
        => \A doc \in Docs : matches(node[last.self], doc) = matches(node[last.other], doc)

\* the client holds what compiling {properties: {"": <a sub-schema>}} returned
CompiledEmptyName == Compiled /\ IsPropertySchema(input.schema, "")

\* C28: the sub-schema of a property whose name is empty is compiled as a top-level
\* schema is: {properties: {"": sub}} fails as sub fails on its own, and otherwise
\* compiles to And(And(t)) with t the tree sub compiles to on its own; in t each valid
\* maximum, minimum, maxLength, minLength and pattern is AlwaysTrue, each of
\* properties, allOf, anyOf, oneOf and not is its And, Or, Xor or Not without an
\* ObjectMatch, and with a type other than object t is AlwaysFalse, so the schema
\* accepts no document, and t holds no Or(Not(Exists("")), Type("", type)).
C28_EmptyNameIsTopLevel ==
    CompiledEmptyName =>
        LET sub == PropertySubSchema(input.schema)
            alone == parse(sub)
        IN /\ alone.code # "OK" => result = alone
           /\ alone.code = "OK" =>
                 /\ result.code = "OK"
                 /\ result.tree[1] = AndMatchExpression(<<AndMatchExpression(alone.tree)>>)
           /\ result.code = "OK" =>
                 /\ \A expr \in NodesOf(PropertyTree) :
                       /\ expr.kind \in {"ObjectMatch", "Comparison", "StrLength", "Regex"}
                              => expr.path # ""
                       /\ \A alias \in DOMAIN TypeAliases : expr # TypeRestrictionOf("", alias)
                 /\ IF NamesNonObjectType(sub)
                    THEN /\ PropertyTree = AlwaysFalseMatchExpression
                         /\ \A doc \in MatchDocs : ~matchesBSON(result.tree[1], doc)
                    ELSE /\ PropertyTree.kind = "And"
                         /\ Len(PropertyTree.children) = KeywordChildren(sub)
                         /\ \A k \in 2..6 :
                               HasKey(sub, DispatchOrder[k]) =>
                                   PropertyTree.children[ChildIndex(sub, k)]
                                       = AlwaysTrueMatchExpression
                         /\ \A k \in NestingKeywords :
                               HasKey(sub, DispatchOrder[k]) =>
                                   PropertyTree.children[ChildIndex(sub, k)].kind
                                       = NestingKindOf(DispatchOrder[k])

\* C28: {properties: {"": {type: "string", pattern: "^a"}}} has been compiled, and the
\* tree of the sub-schema is AlwaysFalse.
C28_Witness ==
    /\ CompiledEmptyName
    /\ PropertySubSchema(input.schema) = <<BSONElement("type", "String", "string"),
                                           BSONElement("pattern", "String", <<"^", "a">>)>>
    /\ result.code = "OK"
    /\ PropertyTree = AlwaysFalseMatchExpression

====
